---- MODULE Spec2Model ----
(***************************************************************************)
(* rustpad: the padding-oracle attack engine.                              *)
(*                                                                         *)
(* Representation.  A u8 is a number in 0..255.  A Block is a function     *)
(* from the byte indices 0..size-1 (the indices of the Rust arrays) to     *)
(* bytes.  A Vec<Block> or &[Block] is a TLA+ sequence, so the block with  *)
(* Rust index k is element k+1 of the sequence.                            *)
(***************************************************************************)
EXTENDS Integers, Sequences, FiniteSets, TLC

(***************************************************************************)
(* Bounds of the model.                                                    *)
(***************************************************************************)
\* program invocations in one behaviour (the cache file outlives a run)
MaxRuns == 2
\* target blocks of the longest cypher text given to the first run
MaxTargets == 2
\* blocks of the longest plain text to encrypt
MaxPlainBlocks == 2
\* of the candidates found valid in one round, how many (the smallest ones)
\* find_any may return
MaxFindAny == 2

(***************************************************************************)
(* Program constants.                                                      *)
(***************************************************************************)
RETRY_MAX_ATTEMPTS == 3
U8_MAX == 255
Eight == 8
Sixteen == 16

Byte == 0..U8_MAX
BlockSizes == {Eight, Sixteen}

\* Option<T>: None or Some(v)
None == <<>>
Some(v) == <<v>>
IsSome(o) == o # <<>>
Unwrap(o) == o[1]

(***************************************************************************)
(* u8 ^ u8, bit by bit, tabulated once.                                    *)
(***************************************************************************)
RECURSIVE BitXorRec(_, _, _)
BitXorRec(a, b, n) ==
    IF n = 0 THEN 0
    ELSE (((a % 2) + (b % 2)) % 2) + 2 * BitXorRec(a \div 2, b \div 2, n - 1)

XorTable == [a \in Byte |-> [b \in Byte |-> BitXorRec(a, b, 8)]]

ByteXor(a, b) == XorTable[a][b]

(***************************************************************************)
(* Block                                                                   *)
(***************************************************************************)
\* a Rust array literal as a Block
Arr(s) == [i \in 0..(Len(s) - 1) |-> s[i + 1]]

BlockLen(block) == Cardinality(DOMAIN block)

Block_new(block_size) == [i \in 0..(block_size - 1) |-> 0]

new_incremental_padding(block_size) ==
    IF block_size = Eight
    THEN Arr(<<8, 7, 6, 5, 4, 3, 2, 1>>)
    ELSE Arr(<<16, 15, 14, 13, 12, 11, 10, 9, 8, 7, 6, 5, 4, 3, 2, 1>>)

\* Result<&mut Self>: [ok, block]; the block is untouched on Err.
\* Block::Eight adds the value to the byte (wrapping at u8), Block::Sixteen
\* overwrites it.
set_byte(block, index, value) ==
    IF BlockLen(block) = Eight
    THEN IF index < 8
         THEN [ok |-> TRUE,
               block |-> [block EXCEPT ![index] = (@ + value) % (U8_MAX + 1)]]
         ELSE [ok |-> FALSE, block |-> block]
    ELSE IF index < 16
         THEN [ok |-> TRUE, block |-> [block EXCEPT ![index] = value]]
         ELSE [ok |-> FALSE, block |-> block]

\* the Err of a XOR: a value that is no block
XorErr == <<"XorErr">>

\* the variant without the size check: zip stops at the shorter block
BlockXor_unchecked(lhs, rhs) ==
    [i \in DOMAIN lhs \cap DOMAIN rhs |-> ByteXor(lhs[i], rhs[i])]

\* impl BitXor for &Block
BlockXor(lhs, rhs) ==
    IF BlockLen(lhs) # BlockLen(rhs)
    THEN XorErr
    ELSE [i \in DOMAIN lhs |-> ByteXor(lhs[i], rhs[i])]

\* block XOR incremental_padding(size)
to_intermediate(block) ==
    BlockXor(block, new_incremental_padding(BlockLen(block)))

\* the last pad_size bytes rewritten: out[i] = block[i] XOR (size - i) XOR pad_size
to_adjusted_for_padding(block, pad_size) ==
    LET size == BlockLen(block) IN
    [i \in DOMAIN block |->
        IF i >= size - pad_size
        THEN ByteXor(ByteXor(block[i], size - i), pad_size)
        ELSE block[i]]

(***************************************************************************)
(* CypherText and ForgedCypherText                                         *)
(***************************************************************************)
amount_blocks(text) == Len(text.blocks)

CypherText_from_iter(blocks, url_encoded, used_encoding) ==
    [blocks |-> blocks, url_encoded |-> url_encoded, used_encoding |-> used_encoding]

\* the state of the attack on the block with Rust index block_to_decrypt_idx;
\* original_blocks is cypher_text.blocks()[..block_to_decrypt_idx + 1]
from_cypher_text(cypher_text, block_to_decrypt_idx) ==
    LET block_size == BlockLen(cypher_text.blocks[1]) IN
    [blocks |-> SubSeq(cypher_text.blocks, 1, block_to_decrypt_idx + 1),
     url_encoded |-> cypher_text.url_encoded,
     used_encoding |-> cypher_text.used_encoding,
     current_byte_idx |-> block_size - 1,
     forged_block_wip |-> Block_new(block_size),
     forged_block_solution |-> Block_new(block_size)]

from_slice(original_blocks, block_size, url_encoded, used_encoding) ==
    [blocks |-> original_blocks,
     url_encoded |-> url_encoded,
     used_encoding |-> used_encoding,
     current_byte_idx |-> block_size - 1,
     forged_block_wip |-> Block_new(block_size),
     forged_block_solution |-> Block_new(block_size)]

block_size_of(text) == BlockLen(text.blocks[1])

set_current_byte(forged, value) ==
    [forged EXCEPT
        !.forged_block_wip = set_byte(@, forged.current_byte_idx, value).block]

\* SolvedForgedCypherText::from(ForgedCypherText)
Solved_from(forged) ==
    [blocks |-> forged.blocks,
     url_encoded |-> forged.url_encoded,
     used_encoding |-> forged.used_encoding,
     forged_block_solution |-> forged.forged_block_solution]

\* SolvedForgedCypherText::from((ForgedCypherText, cached Block))
Solved_from_cached(forged, cached_block) ==
    [blocks |-> forged.blocks,
     url_encoded |-> forged.url_encoded,
     used_encoding |-> forged.used_encoding,
     forged_block_solution |-> cached_block]

\* the variant that leaves the cursor where it is
lock_byte_keeps_cursor(forged) ==
    LET idx == forged.current_byte_idx
        locked == [forged EXCEPT
                     !.forged_block_solution[idx] = forged.forged_block_wip[idx]]
    IN  IF idx = 0
        THEN [kind |-> "Solved", idx |-> idx, value |-> Solved_from(locked)]
        ELSE [kind |-> "BytesLeft", idx |-> idx, value |-> locked]

\* ByteLockResult: [kind, idx (the index locked), value]
lock_byte(forged) ==
    LET idx == forged.current_byte_idx
        locked == [forged EXCEPT
                     !.forged_block_solution[idx] = forged.forged_block_wip[idx]]
    IN  IF idx = 0
        THEN [kind |-> "Solved", idx |-> idx, value |-> Solved_from(locked)]
        ELSE [kind |-> "BytesLeft", idx |-> idx,
              value |-> [locked EXCEPT !.current_byte_idx = idx - 1]]

bytes_answered(forged) ==
    (block_size_of(forged) - 1) - forged.current_byte_idx

\* the variant that adjusts to the padding length of the byte locked last
ForgedCypherText_encode_old_padding(forged) ==
    LET n == amount_blocks(forged)
        prefix_blocks == SubSeq(forged.blocks, 1, n - 2)
        to_decrypt_block == forged.blocks[n]
        forged_block_with_padding_adjusted ==
            to_adjusted_for_padding(forged.forged_block_wip,
                block_size_of(forged) - forged.current_byte_idx - 1)
    IN  prefix_blocks \o <<forged_block_with_padding_adjusted>>
                      \o <<to_decrypt_block>>

\* the raw bytes ForgedCypherText::encode puts on the wire, block by block:
\* the prefix, the padding-adjusted forged block, the block to decrypt
ForgedCypherText_encode(forged) ==
    LET n == amount_blocks(forged)
        prefix_blocks == SubSeq(forged.blocks, 1, n - 2)
        to_decrypt_block == forged.blocks[n]
        forged_block_with_padding_adjusted ==
            to_adjusted_for_padding(forged.forged_block_wip,
                block_size_of(forged) - forged.current_byte_idx)
    IN  prefix_blocks \o <<forged_block_with_padding_adjusted>>
                      \o <<to_decrypt_block>>

block_to_decrypt(solved) == solved.blocks[Len(solved.blocks)]

original_forged_block(solved) == solved.blocks[Len(solved.blocks) - 1]

\* the variant that takes the forged block itself for the intermediate
plain_text_solution_no_intermediate(solved) ==
    BlockXor(solved.forged_block_solution, original_forged_block(solved))

plain_text_solution(solved) ==
    BlockXor(to_intermediate(solved.forged_block_solution),
             original_forged_block(solved))

\* (prev_block, target_block)
as_cache_key(forged) ==
    <<forged.blocks[amount_blocks(forged) - 1],
      forged.blocks[amount_blocks(forged)]>>

(***************************************************************************)
(* The oracle's side: a block cipher under a key the engine never sees,    *)
(* and the PKCS#7 check of the last block of what it is sent.              *)
(***************************************************************************)
D_K(k, block) == [i \in DOMAIN block |-> (block[i] + k[i]) % (U8_MAX + 1)]

E_K(k, block) ==
    [i \in DOMAIN block |-> (block[i] + (U8_MAX + 1) - k[i]) % (U8_MAX + 1)]

\* trailing bytes all equal to the padding length k in [1, blocksize]
valid_padding(block) ==
    LET size == BlockLen(block)
        k == block[size - 1]
    IN  /\ k >= 1
        /\ k <= size
        /\ \A i \in (size - k)..(size - 1) : block[i] = k

\* the answer of a padding oracle to the raw bytes of a request: CBC
\* decryption of the last block, then the padding check
padding_oracle(k, blocks) ==
    \E received \in {blocks} :
    \E plain \in {BlockXor(D_K(k, received[Len(received)]),
                           received[Len(received) - 1])} :
        valid_padding(plain)

(***************************************************************************)
(* Cache: Option<Cache> is None or [config, data], data the two-level map  *)
(* CacheConfig -> ((prev, target) -> solved forged block).                 *)
(***************************************************************************)
EmptyMap == <<>>

\* cache.bin: whether it exists, and its bytes
NoFile == [exists |-> FALSE, bytes |-> <<>>]

\* OpenOptions read, write, create: a missing file is created empty
open_cache_file(file) == [exists |-> TRUE, bytes |-> file.bytes]

\* the variant that looks the pair up under every config
Cache_get_any_config(c, cache_key) ==
    LET holding == {config \in DOMAIN c.data : cache_key \in DOMAIN c.data[config]}
    IN  IF holding # {}
        THEN Some(c.data[CHOOSE config \in holding : TRUE][cache_key])
        ELSE None

\* the variant that looks the pair up the wrong way round
Cache_get_swapped(c, cache_key) ==
    IF c.config \in DOMAIN c.data
        /\ <<cache_key[2], cache_key[1]>> \in DOMAIN c.data[c.config]
    THEN Some(c.data[c.config][<<cache_key[2], cache_key[1]>>])
    ELSE None

Cache_get(c, cache_key) ==
    IF c.config \in DOMAIN c.data /\ cache_key \in DOMAIN c.data[c.config]
    THEN Some(c.data[c.config][cache_key])
    ELSE None

\* the in-memory map after the insert (the file is rewritten from it)
Cache_insert(c, cache_key, value) ==
    LET old == IF c.config \in DOMAIN c.data THEN c.data[c.config] ELSE EmptyMap
    IN  [c EXCEPT !.data = (c.config :> ((cache_key :> value) @@ old)) @@ c.data]

(***************************************************************************)
(* The cache file: rmp_serde's encoding of the two-level map, as a         *)
(* sequence of numbers.  A map or an Option starts with its length, an     *)
(* enum with the index of its variant, a string is one number of the       *)
(* table Strings.                                                          *)
(***************************************************************************)
Strings ==
    <<"oracle.sh", "other.sh", "http://target/?q=CTEXT", "http://other/?q=CTEXT",
      "/error", "/home", "padding error", "welcome", "not found">>

str_code(str) == CHOOSE n \in 1..Len(Strings) : Strings[n] = str

\* enum SerializableOracleLocation { Web(String), Script(PathBuf) }
LocationVariants == <<"Web", "Script">>

variant_index(name) ==
    (CHOOSE n \in 1..Len(LocationVariants) : LocationVariants[n] = name) - 1

\* any order of the members of a set: the iteration order of a HashMap
RECURSIVE iter(_)
iter(set) ==
    IF set = {} THEN <<>>
    ELSE LET first == CHOOSE member \in set : TRUE
         IN  <<first>> \o iter(set \ {first})

RECURSIVE concat(_)
concat(parts) ==
    IF parts = <<>> THEN <<>> ELSE Head(parts) \o concat(Tail(parts))

ser_block(block) ==
    <<BlockLen(block)>> \o [n \in 1..BlockLen(block) |-> block[n - 1]]

ser_option_str(o) == IF IsSome(o) THEN <<1, str_code(Unwrap(o))>> ELSE <<0>>

ser_option_u64(o) == IF IsSome(o) THEN <<1, Unwrap(o)>> ELSE <<0>>

\* SerializableCalibrationResponse
ser_response(response) ==
    <<response.status>> \o ser_option_str(response.location)
                        \o ser_option_str(response.content)
                        \o ser_option_u64(response.content_length)

\* CacheConfig
ser_config(config) ==
    <<variant_index(config.oracle_location[1]), str_code(config.oracle_location[2])>>
        \o (IF IsSome(config.calibration_response)
            THEN <<1>> \o ser_response(Unwrap(config.calibration_response))
            ELSE <<0>>)

\* HashMap<(Block, Block), Block>
ser_blocks_mapping(mapping) ==
    LET pairs == iter(DOMAIN mapping)
    IN  <<Len(pairs)>> \o
        concat([n \in 1..Len(pairs) |->
                   ser_block(pairs[n][1]) \o ser_block(pairs[n][2])
                       \o ser_block(mapping[pairs[n]])])

\* rmp_serde::to_vec(&self.data)
to_vec(data) ==
    LET configs == iter(DOMAIN data)
    IN  <<Len(configs)>> \o
        concat([n \in 1..Len(configs) |->
                   ser_config(configs[n]) \o ser_blocks_mapping(data[configs[n]])])

\* Reading: every de_ operator reads one value at position at and returns
\* [ok, value, next]; ok is FALSE when the bytes end or do not fit the type.
Malformed == [ok |-> FALSE, value |-> <<>>, next |-> 0]

Decoded(value, next) == [ok |-> TRUE, value |-> value, next |-> next]

de_block(bytes, at) ==
    IF at > Len(bytes) \/ bytes[at] \notin BlockSizes
    THEN Malformed
    ELSE LET size == bytes[at]
         IN  IF at + size > Len(bytes)
                 \/ \E n \in 1..size : bytes[at + n] \notin Byte
             THEN Malformed
             ELSE Decoded([i \in 0..(size - 1) |-> bytes[at + 1 + i]],
                          at + 1 + size)

de_option_str(bytes, at) ==
    IF at > Len(bytes) THEN Malformed
    ELSE IF bytes[at] = 0 THEN Decoded(None, at + 1)
    ELSE IF bytes[at] = 1 /\ at + 1 <= Len(bytes)
              /\ bytes[at + 1] \in 1..Len(Strings)
         THEN Decoded(Some(Strings[bytes[at + 1]]), at + 2)
         ELSE Malformed

de_option_u64(bytes, at) ==
    IF at > Len(bytes) THEN Malformed
    ELSE IF bytes[at] = 0 THEN Decoded(None, at + 1)
    ELSE IF bytes[at] = 1 /\ at + 1 <= Len(bytes)
         THEN Decoded(Some(bytes[at + 1]), at + 2)
         ELSE Malformed

\* the one value of a set of one: binds a value that was read to a name
the(values) == CHOOSE value \in values : TRUE

de_response(bytes, at) ==
    IF at > Len(bytes) THEN Malformed
    ELSE the({
        IF ~location.ok THEN Malformed
        ELSE the({
            IF ~content.ok THEN Malformed
            ELSE the({
                IF ~content_length.ok THEN Malformed
                ELSE Decoded([status |-> bytes[at],
                              location |-> location.value,
                              content |-> content.value,
                              content_length |-> content_length.value],
                             content_length.next)
                : content_length \in {de_option_u64(bytes, content.next)}})
            : content \in {de_option_str(bytes, location.next)}})
        : location \in {de_option_str(bytes, at + 1)}})

de_config(bytes, at) ==
    IF at + 2 > Len(bytes)
        \/ bytes[at] \notin 0..(Len(LocationVariants) - 1)
        \/ bytes[at + 1] \notin 1..Len(Strings)
        \/ bytes[at + 2] \notin {0, 1}
    THEN Malformed
    ELSE LET location == <<LocationVariants[bytes[at] + 1], Strings[bytes[at + 1]]>>
         IN  IF bytes[at + 2] = 0
             THEN Decoded([oracle_location |-> location,
                           calibration_response |-> None], at + 3)
             ELSE the({
                 IF response.ok
                 THEN Decoded([oracle_location |-> location,
                               calibration_response |-> Some(response.value)],
                              response.next)
                 ELSE Malformed
                 : response \in {de_response(bytes, at + 3)}})

\* one entry of a blocks mapping: the pair of blocks and the solution
de_entry(bytes, at) ==
    the({
        IF ~prev.ok THEN Malformed
        ELSE the({
            IF ~target.ok THEN Malformed
            ELSE the({
                IF ~value.ok THEN Malformed
                ELSE Decoded(<<prev.value, target.value, value.value>>, value.next)
                : value \in {de_block(bytes, target.next)}})
            : target \in {de_block(bytes, prev.next)}})
        : prev \in {de_block(bytes, at)}})

\* amount entries of a blocks mapping, added to mapping
RECURSIVE de_entries(_, _, _, _)
de_entries(bytes, at, amount, mapping) ==
    IF amount = 0 THEN Decoded(mapping, at)
    ELSE the({
        IF entry.ok
        THEN the({de_entries(bytes, entry.next, amount - 1, longer)
                  : longer \in {(<<entry.value[1], entry.value[2]>>
                                     :> entry.value[3]) @@ mapping}})
        ELSE Malformed
        : entry \in {de_entry(bytes, at)}})

de_blocks_mapping(bytes, at) ==
    IF at > Len(bytes) THEN Malformed
    ELSE de_entries(bytes, at + 1, bytes[at], EmptyMap)

RECURSIVE de_configs(_, _, _, _)
de_configs(bytes, at, amount, data) ==
    IF amount = 0 THEN Decoded(data, at)
    ELSE the({
        IF ~config.ok THEN Malformed
        ELSE the({
            IF mapping.ok
            THEN the({de_configs(bytes, mapping.next, amount - 1, longer)
                      : longer \in {(config.value :> mapping.value) @@ data}})
            ELSE Malformed
            : mapping \in {de_blocks_mapping(bytes, config.next)}})
        : config \in {de_config(bytes, at)}})

\* rmp_serde::from_read_ref(&file_data)
from_read_ref(bytes) ==
    IF bytes = <<>> THEN Malformed
    ELSE de_configs(bytes, 2, bytes[1], EmptyMap)

\* the variant that takes a file it cannot read for an empty one
load_from_file_lenient(config, file) ==
    LET parsed == from_read_ref(file.bytes)
        data == IF file.bytes = <<>> \/ ~parsed.ok THEN EmptyMap ELSE parsed.value
    IN  [ok |-> TRUE,
         cache |-> [config |-> config,
                    data |-> IF config \in DOMAIN data
                             THEN data
                             ELSE (config :> EmptyMap) @@ data]]

\* Result<Cache>: an empty file is an empty map, bytes that do not
\* de-serialize are an Err; the current config gets an entry in memory
load_from_file(config, file) ==
    LET parsed == from_read_ref(file.bytes)
        data == IF file.bytes = <<>> THEN EmptyMap ELSE parsed.value
    IN  IF file.bytes # <<>> /\ ~parsed.ok
        THEN [ok |-> FALSE, cache |-> [config |-> config, data |-> EmptyMap]]
        ELSE [ok |-> TRUE,
              cache |-> [config |-> config,
                         data |-> IF config \in DOMAIN data
                                  THEN data
                                  ELSE (config :> EmptyMap) @@ data]]

\* the file after Cache::insert has written back: set_len(0), seek to the
\* start, write_all of the serialized map.  outcome.step is "ok" or the
\* call that failed; a failing write_all has written outcome.written bytes.
write_back(file, bytes, outcome) ==
    IF outcome.step = "ok" THEN [exists |-> TRUE, bytes |-> bytes]
    ELSE IF outcome.step = "set_len" THEN file
    ELSE IF outcome.step = "seek" THEN [exists |-> TRUE, bytes |-> <<>>]
    ELSE [exists |-> TRUE, bytes |-> SubSeq(bytes, 1, outcome.written)]

NoInsert == [step |-> "none", written |-> 0]

(***************************************************************************)
(* The web server behind a web oracle, and what the engine keeps of its    *)
(* responses.  plain is the CBC decryption of the last block received.     *)
(***************************************************************************)
Servers == {"status", "redirect", "body", "varied"}

Response(status, location, body) ==
    [status |-> status, location |-> location, body |-> body,
     content_length |-> Some(IF body = "welcome" THEN 7
                             ELSE IF body = "not found" THEN 9 ELSE 13)]

\* status: 500 on a padding error; redirect: the Location header tells;
\* body: only the body tells; varied: 500 on a padding error, and two
\* different answers to valid paddings, by the parity of the padding length
http_response(server, plain) ==
    IF server = "status"
    THEN IF valid_padding(plain) THEN Response(200, None, "welcome")
         ELSE Response(500, None, "padding error")
    ELSE IF server = "redirect"
    THEN IF valid_padding(plain) THEN Response(302, Some("/home"), "welcome")
         ELSE Response(302, Some("/error"), "welcome")
    ELSE IF server = "body"
    THEN IF valid_padding(plain) THEN Response(200, None, "welcome")
         ELSE Response(200, None, "padding error")
    ELSE IF valid_padding(plain)
         THEN IF plain[BlockLen(plain) - 1] % 2 = 1
              THEN Response(200, None, "welcome")
              ELSE Response(404, None, "not found")
         ELSE Response(500, None, "padding error")

\* CalibrationResponse::from_response
from_response(response, consider_body) ==
    [status |-> response.status,
     location |-> response.location,
     content |-> IF consider_body THEN Some(response.body) ELSE None,
     content_length |-> IF consider_body THEN response.content_length ELSE None]

\* CacheConfig::new: the location and the signature in their serializable form
CacheConfig_new(oracle_location, calibration_response) ==
    [oracle_location |-> oracle_location,
     calibration_response |-> calibration_response]

\* the fold into a HashMap<CalibrationResponse, usize>
counted_responses(responses) ==
    [response \in {responses[v] : v \in DOMAIN responses} |->
        Cardinality({v \in DOMAIN responses : responses[v] = response})]

\* the variant that takes a least frequent response
min_by_key(counted) ==
    {response \in DOMAIN counted :
        \A other \in DOMAIN counted : counted[response] <= counted[other]}

\* max_by_key(|(_, seen)| *seen) over the HashMap: a response seen most
\* often; which one of several depends on the iteration order
max_by_key(counted) ==
    {response \in DOMAIN counted :
        \A other \in DOMAIN counted : counted[other] <= counted[response]}

\* the message ends: Try adding the --consider-body flag
ErrCalibration == "Calibration of the web oracle failed: all responses looked the same"
ErrCorrupted == "Cache file de-serialization failed: corrupted MessagePack data"
ErrCacheSave == "Cache could not be saved"
ErrDecryption == "decryption failed"
NoError == ""

(***************************************************************************)
(* The retry runtime of one candidate's worker.                            *)
(* A response is what one oracle request comes back with: "valid" or       *)
(* "invalid" (an answer) or "error" (a transport error).                   *)
(***************************************************************************)
\* the variant that also retries when the oracle answered "invalid"
validate_retrying_invalid(attempt, response) ==
    IF attempt > RETRY_MAX_ATTEMPTS
    THEN [kind |-> "Err", value |-> FALSE, asked |-> FALSE]
    ELSE IF response # "valid"
         THEN [kind |-> "Retry", value |-> FALSE, asked |-> TRUE]
         ELSE [kind |-> "Ok", value |-> TRUE, asked |-> TRUE]

\* OperationResult<bool, String>; asked: whether the oracle was asked
validate_while_handling_retries(attempt, response) ==
    IF attempt > RETRY_MAX_ATTEMPTS
    THEN [kind |-> "Err", value |-> FALSE, asked |-> FALSE]
    ELSE IF response = "error"
         THEN [kind |-> "Retry", value |-> FALSE, asked |-> TRUE]
         ELSE [kind |-> "Ok", value |-> (response = "valid"), asked |-> TRUE]

\* retry_with_index over Fibonacci::from_millis, a delay iterator that never
\* ends: the loop stops on Ok or Err only.  responses[attempt] is what the
\* oracle returns to the request of that attempt; asks collects the requests made.
RECURSIVE retry_with_index(_, _, _)
retry_with_index(attempt, responses, asks) ==
    LET r == validate_while_handling_retries(attempt, responses[attempt])
        asks2 == IF r.asked THEN Append(asks, responses[attempt]) ELSE asks
    IN  IF r.kind = "Ok"
        THEN [ok |-> TRUE, value |-> r.value, asks |-> asks2]
        ELSE IF r.kind = "Retry"
             THEN retry_with_index(attempt + 1, responses, asks2)
             ELSE [ok |-> FALSE, value |-> FALSE, asks |-> asks2]

\* the closure solve_block maps over the candidates: Ok(lock_byte()) or Err;
\* transmitted: the forged block of the cypher text its requests carry
candidate_worker(forged0, byte_value, responses) ==
    LET forged == set_current_byte(forged0, byte_value)
        r == retry_with_index(1, responses, <<>>)
        transmitted == ForgedCypherText_encode(forged)[amount_blocks(forged) - 1]
    IN  IF ~r.ok
        THEN [ok |-> FALSE, why |-> "failed", asks |-> r.asks, lock |-> None,
              transmitted |-> transmitted]
        ELSE IF r.value
             THEN [ok |-> TRUE, why |-> "valid", asks |-> r.asks,
                   lock |-> lock_byte(forged), transmitted |-> transmitted]
             ELSE [ok |-> FALSE, why |-> "invalid", asks |-> r.asks, lock |-> None,
                   transmitted |-> transmitted]

(***************************************************************************)
(* Decryptor::new                                                          *)
(***************************************************************************)
\* one ForgedCypherText per block index in blocks_to_skip..amount_blocks-1
Decryptor_new(cypher_text, blocks_to_skip) ==
    [k \in 1..(amount_blocks(cypher_text) - blocks_to_skip) |->
        from_cypher_text(cypher_text, blocks_to_skip + k - 1)]

new_decryption_only(cypher_text) == Decryptor_new(cypher_text, 1)

\* the variant that attacks every block but the IV
new_encryption_every_block(cypher_text) == Decryptor_new(cypher_text, 1)

new_encryption(cypher_text) ==
    Decryptor_new(cypher_text, amount_blocks(cypher_text) - 1)

Reverse(s) == [k \in 1..Len(s) |-> s[Len(s) + 1 - k]]

(***************************************************************************)
(* State                                                                   *)
(***************************************************************************)
VARIABLES
    run,                  \* number of the program invocation
    key,                  \* the oracle's secret key
    transport,            \* "reliable" | "flaky": may requests fail in transit
    oracle,               \* config.oracle_location(), the server behind a URL, --consider-body
    no_cache,             \* config.no_cache()
    disk,                 \* "ok" | "faulty": may writes to the cache file fail
    padding_error_response, \* the web oracle's calibrated signature, or None
    calibration,          \* history: the calibrator's counted_responses, or None
    cypher_text,          \* config.cypher_text()
    encryption_mode,      \* config.plain_text().is_some()
    plain_text,           \* config.plain_text(): the padded blocks, or None
    cache,                \* Option<Cache> behind the Arc<Mutex<..>>
    cache_file,           \* cache.bin
    last_insert,          \* history: how the last Cache::insert of the run ended
    forged_cypher_texts,  \* Decryptor.forged_cypher_texts
    pc,                   \* per solve_block call: idle | search | solved | failed | save_failed | skipped
    fct,                  \* solve_block's cypher_text_for_block
    attempts,             \* solve_block's attempts_to_solve_byte
    block_solution,       \* solve_block's block_solution
    locked,               \* history: the byte indices solve_block locked, in order
    byte_rounds,          \* history: search rounds run for the byte now searched
    round_log,            \* history: the outcomes of the workers of the last round
    asked_oracle,         \* history: solve_block sent a request in this run
    progress,             \* history: the sum of the ProgressUpdate amounts of the run
    finish_order,         \* history: the order the parallel solves returned in
    decryption_results,   \* what decrypt_blocks returned
    phase,                \* prepare | decrypt | encrypt | done | failed
    encrypted_blocks_backwards,
    enc_i,                \* the index i of encrypt_plain_text's loop
    enc_steps,            \* history: per finished iteration, what it used and made
    output,               \* the PrintAfterExit payload
    error,                \* the Err the run ended with, or NoError
    prev_output,          \* history: the payload of the run before
    chosen_plain,         \* history: the plain text whose forged cypher text is being decrypted
    same_attack,          \* history: this run repeats the attack of the run before
    start_cache_keys,     \* history: the (prev, target) pairs cached when the run began
    call,                 \* the last call of a function on its own: [op, args, result]
    cache_guard,          \* the thread that holds the MutexGuard of the cache, or NoThread
    cache_entries,        \* the blocks whose solution the cache behind the mutex holds
    solver,               \* per decrypt_blocks closure: [pc, rounds_left]
    candidate,            \* per closure of a search round: where it is
    row_guard,            \* per dashboard row: the thread that holds its mutex
    rows,                 \* app_state: per row and block, what is shown
    wips,                 \* history: a BlockWip event was sent for the block
    solved_sent,          \* history: the BlockSolved event of a block was sent
    dropped               \* history: an update of a BlockWip event was dropped

vars == <<run, key, transport, oracle, no_cache, disk, padding_error_response,
          calibration, cypher_text, encryption_mode, plain_text, cache,
          cache_file, last_insert, forged_cypher_texts, pc, fct, attempts,
          block_solution, locked, byte_rounds, round_log, asked_oracle,
          progress, finish_order, decryption_results, phase, encrypted_blocks_backwards,
          enc_i, enc_steps, output, error, prev_output, chosen_plain,
          same_attack, start_cache_keys, call, cache_guard, cache_entries,
          solver, candidate, row_guard, rows, wips, solved_sent, dropped>>

\* the threads of a decryption, step by step
worker_vars == <<cache_guard, cache_entries, solver, candidate, row_guard, rows,
                 wips, solved_sent, dropped>>

\* what logic_main and all it calls leave alone
input_vars == <<run, key, transport, oracle, no_cache, disk, cypher_text,
                encryption_mode, plain_text, prev_output, chosen_plain,
                same_attack, call, worker_vars>>

\* the state of the attack
attack_vars ==
    <<run, key, transport, oracle, no_cache, disk, padding_error_response,
      calibration, cypher_text, encryption_mode, plain_text, cache,
      cache_file, last_insert, forged_cypher_texts, pc, fct, attempts,
      block_solution, locked, byte_rounds, round_log, asked_oracle,
      progress, finish_order, decryption_results, phase, encrypted_blocks_backwards,
      enc_i, enc_steps, output, error, prev_output, chosen_plain,
      same_attack, start_cache_keys, worker_vars>>

NoCall == [op |-> "none", args |-> <<>>, result |-> <<>>]

Call(op, args, result) == [op |-> op, args |-> args, result |-> result]

config_vars == <<input_vars, padding_error_response, calibration,
                 start_cache_keys>>

cache_vars == <<cache, cache_file, last_insert>>

enc_vars == <<encrypted_blocks_backwards, enc_i, enc_steps>>

\* solve_block calls: 1..n are the decryptor's parallel calls, 0 the encryptor's
ENC == 0
DecryptTasks == 1..Len(forged_cypher_texts)
Tasks == 0..Len(forged_cypher_texts)

(***************************************************************************)
(* The environment's choices in one search round: which requests fail in   *)
(* transit.  who = "all": every candidate's first n requests; "valid":     *)
(* only those of the candidates the oracle would call valid; "mixed": the  *)
(* first byte_value % (n + 1) requests of each candidate.                  *)
(***************************************************************************)
ErrPatterns ==
    IF transport = "reliable"
    THEN {[who |-> "none", n |-> 0]}
    ELSE {[who |-> "none", n |-> 0], [who |-> "mixed", n |-> RETRY_MAX_ATTEMPTS]} \cup
         {[who |-> w, n |-> k] : w \in {"all", "valid"}, k \in 1..RETRY_MAX_ATTEMPTS}

\* the requests of one candidate that fail in transit
errors_of(pat, byte_value, is_valid) ==
    IF pat.who = "all" \/ (pat.who = "valid" /\ is_valid)
    THEN pat.n
    ELSE IF pat.who = "mixed" THEN byte_value % (pat.n + 1) ELSE 0

oracle_responses(pat, byte_value, is_valid) ==
    [attempt \in 1..(RETRY_MAX_ATTEMPTS + 1) |->
        IF attempt <= errors_of(pat, byte_value, is_valid)
        THEN "error"
        ELSE IF is_valid THEN "valid" ELSE "invalid"]

\* what the server decrypts the bytes of a request to
received_plain(k, blocks) ==
    BlockXor(D_K(k, blocks[Len(blocks)]), blocks[Len(blocks) - 1])

\* CalibrationWebOracle::ask_validation: the Response itself
calibration_ask_validation(forged) ==
    http_response(oracle.server,
        received_plain(key, ForgedCypherText_encode(forged)))

\* the variant that takes the signature for the answer to a valid padding
web_ask_validation_inverted(forged) ==
    \E response \in {from_response(calibration_ask_validation(forged),
                                    oracle.consider_body)} :
        response = Unwrap(padding_error_response)

\* WebOracle::ask_validation: response != padding_error_response
web_ask_validation(forged) ==
    \E response \in {from_response(calibration_ask_validation(forged),
                                    oracle.consider_body)} :
        response # Unwrap(padding_error_response)

\* ScriptOracle::ask_validation: status.success() of the script
script_ask_validation(forged) ==
    padding_oracle(key, ForgedCypherText_encode(forged))

\* Oracle::ask_validation, without transport errors
ask_validation(forged) ==
    IF oracle.location[1] = "Script"
    THEN script_ask_validation(forged)
    ELSE web_ask_validation(forged)

(***************************************************************************)
(* solve_block                                                             *)
(***************************************************************************)
EmptyLog == {}

\* the amount smallest members of a set of numbers
RECURSIVE smallest(_, _)
smallest(set, amount) ==
    IF amount = 0 \/ set = {}
    THEN {}
    ELSE LET least == CHOOSE v \in set : \A w \in set : v <= w
         IN  {least} \cup smallest(set \ {least}, amount - 1)

\* find_any: any one of the Ok results
find_any(found) == smallest(found, MaxFindAny)

NoteFinish(t) ==
    finish_order' = IF t # ENC /\ pc'[t] \in {"solved", "failed", "save_failed"}
                    THEN Append(finish_order, t)
                    ELSE finish_order

\* the variant that reports a cache hit as one byte
hit_progress_of_a_byte(cached_block) == 1

\* the amount of the ProgressUpdate of a cache hit: the block size
hit_progress(cached_block) == BlockLen(cached_block)

\* the call and the cache lookup: a hit returns the Solved state at once
solve_block_begin(t, forged) ==
    LET hit == IF IsSome(cache)
               THEN Cache_get(Unwrap(cache), as_cache_key(forged))
               ELSE None
    IN  /\ fct' = [fct EXCEPT ![t] = forged]
        /\ attempts' = [attempts EXCEPT ![t] = 1]
        /\ locked' = [locked EXCEPT ![t] = <<>>]
        /\ byte_rounds' = [byte_rounds EXCEPT ![t] = 0]
        /\ asked_oracle' = [asked_oracle EXCEPT ![t] = FALSE]
        /\ UNCHANGED round_log
        /\ IF IsSome(hit)
           THEN /\ block_solution' = [block_solution EXCEPT
                      ![t] = Some(Solved_from_cached(forged, Unwrap(hit)))]
                /\ progress' = progress + hit_progress(Unwrap(hit))
                /\ pc' = [pc EXCEPT ![t] = "solved"]
           ELSE /\ block_solution' = [block_solution EXCEPT ![t] = None]
                /\ UNCHANGED progress
                /\ pc' = [pc EXCEPT ![t] = "search"]
        /\ NoteFinish(t)
        /\ UNCHANGED cache_vars

\* how the write-back of an insert may end
InsertOutcomes(bytes) ==
    IF disk = "ok"
    THEN {[step |-> "ok", written |-> Len(bytes)]}
    ELSE {[step |-> "ok", written |-> Len(bytes)],
          [step |-> "set_len", written |-> 0],
          [step |-> "seek", written |-> 0]} \cup
         {[step |-> "write_all", written |-> n] :
             n \in {0, Len(bytes) \div 2, Len(bytes) - 1}}

\* Cache::insert on the cache behind the mutex
insert(cache_key, value, outcome) ==
    LET c == Cache_insert(Unwrap(cache), cache_key, value)
    IN  /\ cache' = Some(c)
        /\ cache_file' = write_back(cache_file, to_vec(c.data), outcome)
        /\ last_insert' = outcome

insert_outcomes(cache_key, value) ==
    InsertOutcomes(to_vec(Cache_insert(Unwrap(cache), cache_key, value).data))

\* the variant that saves to the cache at every locked byte
byte_solved_saving_each_byte(t, lock) ==
    /\ attempts' = [attempts EXCEPT ![t] = 1]
    /\ byte_rounds' = [byte_rounds EXCEPT ![t] = 0]
    /\ locked' = [locked EXCEPT ![t] = Append(@, lock.idx)]
    /\ progress' = progress + 1
    /\ IF IsSome(cache)
       THEN insert(as_cache_key(fct[t]), lock.value.forged_block_solution,
                   [step |-> "ok", written |-> 0])
       ELSE UNCHANGED cache_vars
    /\ IF lock.kind = "BytesLeft"
       THEN /\ fct' = [fct EXCEPT ![t] = lock.value]
            /\ UNCHANGED <<block_solution, pc>>
       ELSE /\ block_solution' = [block_solution EXCEPT ![t] = Some(lock.value)]
            /\ pc' = [pc EXCEPT ![t] = "solved"]
            /\ UNCHANGED fct

\* the variant that leaves attempts_to_solve_byte as it is
byte_solved_keeps_attempts(t, lock) ==
    /\ UNCHANGED attempts
    /\ byte_rounds' = [byte_rounds EXCEPT ![t] = 0]
    /\ locked' = [locked EXCEPT ![t] = Append(@, lock.idx)]
    /\ progress' = progress + 1
    /\ IF lock.kind = "BytesLeft"
       THEN /\ fct' = [fct EXCEPT ![t] = lock.value]
            /\ UNCHANGED <<cache_vars, block_solution, pc>>
       ELSE /\ IF IsSome(cache)
               THEN \E outcome \in insert_outcomes(as_cache_key(fct[t]),
                                       lock.value.forged_block_solution) :
                        /\ insert(as_cache_key(fct[t]),
                                  lock.value.forged_block_solution, outcome)
                        /\ IF outcome.step = "ok"
                           THEN /\ block_solution' =
                                       [block_solution EXCEPT ![t] = Some(lock.value)]
                                /\ pc' = [pc EXCEPT ![t] = "solved"]
                           ELSE /\ pc' = [pc EXCEPT ![t] = "save_failed"]
                                /\ UNCHANGED block_solution
               ELSE /\ UNCHANGED cache_vars
                    /\ block_solution' = [block_solution EXCEPT ![t] = Some(lock.value)]
                    /\ pc' = [pc EXCEPT ![t] = "solved"]
            /\ UNCHANGED fct

\* the variant that returns the solution whatever became of the insert
byte_solved_ignoring_insert(t, lock) ==
    /\ attempts' = [attempts EXCEPT ![t] = 1]
    /\ byte_rounds' = [byte_rounds EXCEPT ![t] = 0]
    /\ locked' = [locked EXCEPT ![t] = Append(@, lock.idx)]
    /\ progress' = progress + 1
    /\ IF lock.kind = "BytesLeft"
       THEN /\ fct' = [fct EXCEPT ![t] = lock.value]
            /\ UNCHANGED <<cache_vars, block_solution, pc>>
       ELSE /\ IF IsSome(cache)
               THEN \E outcome \in insert_outcomes(as_cache_key(fct[t]),
                                       lock.value.forged_block_solution) :
                        insert(as_cache_key(fct[t]),
                               lock.value.forged_block_solution, outcome)
               ELSE UNCHANGED cache_vars
            /\ block_solution' = [block_solution EXCEPT ![t] = Some(lock.value)]
            /\ pc' = [pc EXCEPT ![t] = "solved"]
            /\ UNCHANGED fct

\* Ok(current_byte_solution): the byte is locked; a solved block is saved to
\* the cache, and an Err of the insert is returned in place of the solution
byte_solved(t, lock) ==
    /\ attempts' = [attempts EXCEPT ![t] = 1]
    /\ byte_rounds' = [byte_rounds EXCEPT ![t] = 0]
    /\ locked' = [locked EXCEPT ![t] = Append(@, lock.idx)]
    /\ progress' = progress + 1
    /\ IF lock.kind = "BytesLeft"
       THEN /\ fct' = [fct EXCEPT ![t] = lock.value]
            /\ UNCHANGED <<cache_vars, block_solution, pc>>
       ELSE /\ IF IsSome(cache)
               THEN \E outcome \in insert_outcomes(as_cache_key(fct[t]),
                                       lock.value.forged_block_solution) :
                        /\ insert(as_cache_key(fct[t]),
                                  lock.value.forged_block_solution, outcome)
                        /\ IF outcome.step = "ok"
                           THEN /\ block_solution' =
                                       [block_solution EXCEPT ![t] = Some(lock.value)]
                                /\ pc' = [pc EXCEPT ![t] = "solved"]
                           ELSE /\ pc' = [pc EXCEPT ![t] = "save_failed"]
                                /\ UNCHANGED block_solution
               ELSE /\ UNCHANGED cache_vars
                    /\ block_solution' = [block_solution EXCEPT ![t] = Some(lock.value)]
                    /\ pc' = [pc EXCEPT ![t] = "solved"]
            /\ UNCHANGED fct

\* Err(e): no candidate was found valid in this round
byte_failed(t) ==
    /\ byte_rounds' = [byte_rounds EXCEPT ![t] = @ + 1]
    /\ IF attempts[t] > RETRY_MAX_ATTEMPTS
       THEN /\ pc' = [pc EXCEPT ![t] = "failed"]
            /\ UNCHANGED attempts
       ELSE /\ attempts' = [attempts EXCEPT ![t] = @ + 1]
            /\ UNCHANGED pc
    /\ UNCHANGED <<cache_vars, block_solution, fct, locked, progress>>

\* the candidates the oracle answers "valid padding" for in this round
valid_candidates(forged) ==
    {v : v \in {w \in Byte :
                   \E question \in {set_current_byte(forged, w)} :
                       ask_validation(question)}}

\* what the workers of one round return, each with its candidate
worker_results(forged, valid, pat) ==
    {[byte_value |-> v,
      result |-> candidate_worker(forged, v,
                     oracle_responses(pat, v, v \in valid))] :
        v \in Byte}

\* the variant in which a worker that returned the Err of its retries ends
\* the round
ok_results_unless_failed(results) ==
    IF \E w \in results : w.result.why = "failed"
    THEN {}
    ELSE {r.byte_value : r \in {w \in results : w.result.ok}}

\* the candidates whose worker returned Ok
ok_results(results) == {r.byte_value : r \in {w \in results : w.result.ok}}

\* one pass of the while loop: the parallel search over the 256 candidates,
\* find_any keeping any one Ok result, then the match on it
SearchByte(t) ==
    /\ pc[t] = "search"
    /\ \E valid \in {valid_candidates(fct[t])} :
       \E pat \in ErrPatterns :
       \E results \in {worker_results(fct[t], valid, pat)} :
       \E found \in {ok_results(results)} :
           /\ round_log' = {[byte_value |-> r.byte_value,
                             transmitted |-> r.result.transmitted,
                             why |-> r.result.why, asks |-> r.result.asks] :
                               r \in results}
           /\ asked_oracle' = [asked_oracle EXCEPT ![t] = TRUE]
           /\ IF found # {}
              THEN \E v \in find_any(found) :
                   \E r \in {w \in results : w.byte_value = v} :
                       byte_solved(t, r.result.lock)
              ELSE byte_failed(t)
    /\ NoteFinish(t)
    /\ UNCHANGED <<config_vars, forged_cypher_texts, decryption_results, phase,
                   enc_vars, output, error>>

(***************************************************************************)
(* Decryptor::decrypt_blocks and the part of logic_main that follows it    *)
(***************************************************************************)
\* the parallel map starts solve_block on one forged cypher text
DecryptBlockStart(t) ==
    /\ phase = "decrypt"
    /\ t \in DecryptTasks
    /\ pc[t] = "idle"
    /\ solve_block_begin(t, forged_cypher_texts[t])
    /\ UNCHANGED <<config_vars, forged_cypher_texts, decryption_results, phase,
                   enc_vars, output, error>>

\* collecting into a Result stops handing out items once one item is an Err
DecryptBlockSkip(t) ==
    /\ phase = "decrypt"
    /\ t \in DecryptTasks
    /\ pc[t] = "idle"
    /\ \E u \in DecryptTasks : pc[u] \in {"failed", "save_failed"}
    /\ pc' = [pc EXCEPT ![t] = "skipped"]
    /\ UNCHANGED <<config_vars, cache_vars, forged_cypher_texts, fct,
                   attempts, block_solution, locked, byte_rounds, round_log,
                   asked_oracle, progress, finish_order, decryption_results, phase,
                   enc_vars, output, error>>

\* the variant that collects the items in the order they were produced
collect_as_finished(solutions, amount) ==
    [k \in 1..amount |-> solutions[finish_order[k]]]

\* Vec<SolvedForgedCypherText> of a parallel map that yielded no Err: the
\* item of input k is element k, whenever it was produced
collect_results(solutions, amount) == [k \in 1..amount |-> solutions[k]]

\* max_by_key(|cypher_text| cypher_text.original_blocks().len())
last_block_of(results) ==
    CHOOSE r \in {results[k] : k \in 1..Len(results)} :
        \A k \in 1..Len(results) : Len(results[k].blocks) <= Len(r.blocks)

\* decrypt_blocks returns; logic_main propagates an Err, prints the plain
\* text, or hands the last block's solution to the Encryptor
DecryptReturn ==
    /\ phase = "decrypt"
    /\ \A t \in DecryptTasks :
           pc[t] \in {"solved", "failed", "save_failed", "skipped"}
    /\ IF \E t \in DecryptTasks : pc[t] # "solved"
       THEN /\ decryption_results' = Some([ok |-> FALSE, value |-> <<>>])
            /\ phase' = "failed"
            /\ output' = None
            /\ \E t \in DecryptTasks :
                   /\ pc[t] \in {"failed", "save_failed"}
                   /\ error' = IF pc[t] = "failed" THEN ErrDecryption
                               ELSE ErrCacheSave
            /\ UNCHANGED enc_vars
       ELSE LET results == collect_results(
                    [t \in DecryptTasks |-> Unwrap(block_solution[t])],
                    Len(forged_cypher_texts))
            IN  /\ decryption_results' = Some([ok |-> TRUE, value |-> results])
                /\ IF encryption_mode
                   THEN /\ phase' = "encrypt"
                        /\ encrypted_blocks_backwards' =
                               <<block_to_decrypt(last_block_of(results))>>
                        /\ enc_i' = 0
                        /\ enc_steps' = <<>>
                        /\ output' = None
                   ELSE /\ phase' = "done"
                        /\ output' = Some([k \in 1..Len(results) |->
                                              plain_text_solution(results[k])])
                        /\ UNCHANGED enc_vars
                /\ UNCHANGED error
    /\ UNCHANGED <<config_vars, cache_vars, forged_cypher_texts, pc, fct,
                   attempts, block_solution, locked, byte_rounds, round_log,
                   asked_oracle, progress, finish_order>>

(***************************************************************************)
(* Encryptor::encrypt_plain_text                                           *)
(***************************************************************************)
initial_block_solution == last_block_of(Unwrap(decryption_results).value)

\* the variant that walks the plain text from its first block
plain_text_block_forward(i) == Unwrap(plain_text)[i + 1]

\* plain_text.blocks().iter().rev().enumerate(): the block of iteration i
plain_text_block_at(i) ==
    Unwrap(plain_text)[Len(Unwrap(plain_text)) - i]

\* how the write-back of a cache_decryption_equivalent call may end
equivalent_outcomes(prepend_cypher_text_block, cypher_text_block, solution) ==
    IF IsSome(cache)
    THEN insert_outcomes(<<prepend_cypher_text_block, cypher_text_block>>, solution)
    ELSE {[step |-> "ok", written |-> 0]}

\* the variant that stores nothing beyond what solve_block stored
cache_decryption_skipped(prepend_cypher_text_block, cypher_text_block, solution, outcome) ==
    UNCHANGED cache_vars

\* the insert of the pair a later decryption will look up
cache_decryption_equivalent(prepend_cypher_text_block, cypher_text_block, solution, outcome) ==
    IF IsSome(cache)
    THEN insert(<<prepend_cypher_text_block, cypher_text_block>>, solution, outcome)
    ELSE UNCHANGED cache_vars

\* i == 0: the seed's solution is reused
EncryptFirstBlock ==
    /\ phase = "encrypt"
    /\ enc_i = 0
    /\ LET solution == initial_block_solution.forged_block_solution
           prepend_cypher_text_block ==
               BlockXor(to_intermediate(solution), plain_text_block_at(0))
       IN  /\ encrypted_blocks_backwards' =
                  Append(encrypted_blocks_backwards, prepend_cypher_text_block)
           /\ enc_steps' = Append(enc_steps,
                  [solution |-> solution, solved_on |-> <<>>,
                   plain_text_block |-> plain_text_block_at(0)])
           /\ \E outcome \in equivalent_outcomes(prepend_cypher_text_block,
                                 block_to_decrypt(initial_block_solution), solution) :
                  /\ cache_decryption_equivalent(prepend_cypher_text_block,
                         block_to_decrypt(initial_block_solution), solution,
                         outcome)
                  /\ IF outcome.step = "ok"
                     THEN /\ enc_i' = 1
                          /\ UNCHANGED <<phase, error>>
                     ELSE /\ phase' = "failed"
                          /\ error' = ErrCacheSave
                          /\ UNCHANGED enc_i
    /\ progress' = progress + BlockLen(plain_text_block_at(0))
    /\ UNCHANGED <<config_vars, forged_cypher_texts, pc, fct, attempts,
                   block_solution, locked, byte_rounds, round_log, asked_oracle,
                   finish_order, decryption_results, output>>

\* i > 0: solve_block on [zero block, the block prepended last]
EncryptSolveBlock ==
    /\ phase = "encrypt"
    /\ enc_i > 0
    /\ enc_i < Len(Unwrap(plain_text))
    /\ pc[ENC] = "idle"
    /\ LET plain_text_block == plain_text_block_at(enc_i)
           cypher_text_block ==
               encrypted_blocks_backwards[Len(encrypted_blocks_backwards)]
           blocks_to_solve ==
               <<Block_new(BlockLen(plain_text_block)), cypher_text_block>>
       IN  solve_block_begin(ENC,
               from_slice(blocks_to_solve, BlockLen(plain_text_block),
                   initial_block_solution.url_encoded,
                   initial_block_solution.used_encoding))
    /\ UNCHANGED <<config_vars, forged_cypher_texts, decryption_results, phase,
                   enc_vars, output, error>>

\* solve_block returned Ok: prepend intermediate XOR plain text block
EncryptPrepend ==
    /\ phase = "encrypt"
    /\ pc[ENC] = "solved"
    /\ LET solution == Unwrap(block_solution[ENC]).forged_block_solution
           cypher_text_block ==
               encrypted_blocks_backwards[Len(encrypted_blocks_backwards)]
           prepend_cypher_text_block ==
               BlockXor(to_intermediate(solution), plain_text_block_at(enc_i))
       IN  /\ encrypted_blocks_backwards' =
                  Append(encrypted_blocks_backwards, prepend_cypher_text_block)
           /\ enc_steps' = Append(enc_steps,
                  [solution |-> solution, solved_on |-> fct[ENC].blocks,
                   plain_text_block |-> plain_text_block_at(enc_i)])
           /\ \E outcome \in equivalent_outcomes(prepend_cypher_text_block,
                                 cypher_text_block, solution) :
                  /\ cache_decryption_equivalent(prepend_cypher_text_block,
                         cypher_text_block, solution, outcome)
                  /\ IF outcome.step = "ok"
                     THEN /\ enc_i' = enc_i + 1
                          /\ UNCHANGED <<phase, error>>
                     ELSE /\ phase' = "failed"
                          /\ error' = ErrCacheSave
                          /\ UNCHANGED enc_i
    /\ pc' = [pc EXCEPT ![ENC] = "idle"]
    /\ UNCHANGED <<config_vars, forged_cypher_texts, fct, attempts,
                   block_solution, locked, byte_rounds, round_log, asked_oracle,
                   progress,
                   finish_order, decryption_results, output>>

\* solve_block returned Err: encrypt_plain_text returns it
EncryptFail ==
    /\ phase = "encrypt"
    /\ pc[ENC] \in {"failed", "save_failed"}
    /\ phase' = "failed"
    /\ error' = IF pc[ENC] = "failed" THEN ErrDecryption ELSE ErrCacheSave
    /\ UNCHANGED <<config_vars, cache_vars, forged_cypher_texts, pc, fct,
                   attempts, block_solution, locked, byte_rounds, round_log,
                   asked_oracle, progress, finish_order, decryption_results, enc_vars,
                   output>>

\* the loop is over: the blocks in forward order, as a CypherText
EncryptReturn ==
    /\ phase = "encrypt"
    /\ enc_i = Len(Unwrap(plain_text))
    /\ phase' = "done"
    /\ output' = Some(CypherText_from_iter(Reverse(encrypted_blocks_backwards),
                          initial_block_solution.url_encoded,
                          initial_block_solution.used_encoding))
    /\ UNCHANGED <<config_vars, cache_vars, forged_cypher_texts, pc, fct,
                   attempts, block_solution, locked, byte_rounds, round_log,
                   asked_oracle, progress, finish_order, decryption_results, enc_vars,
                   error>>

(***************************************************************************)
(* The inputs of a run.                                                    *)
(***************************************************************************)
KeyOf(block_size) == [i \in 0..(block_size - 1) |-> (i * 53 + 13) % (U8_MAX + 1)]

\* printable ASCII bytes
Gen(block_size, seed) ==
    [i \in 0..(block_size - 1) |-> 33 + ((seed * 29 + i * 7) % 90)]

\* D_K of a target block.  amb >= 2: the bytes before the last one already
\* spell a padding of length amb, so that two values of the last byte validate.
Intermediate(block_size, seed, amb) ==
    [i \in 0..(block_size - 1) |->
        IF amb >= 2 /\ i >= block_size - amb /\ i <= block_size - 2
        THEN amb
        ELSE Gen(block_size, seed)[i]]

\* IV, then one target block per entry of shape
CypherTextOf(block_size, shape) ==
    CypherText_from_iter(
        <<Gen(block_size, 7)>> \o
            [n \in 1..Len(shape) |->
                E_K(KeyOf(block_size), Intermediate(block_size, n, shape[n]))],
        FALSE, "Hex")

\* the byte before the last of a plain-text block that makes the block forged
\* for it, over the one-target cypher text of this shape, decrypt to a block
\* with 2 in that place
TrapByte(block_size, shape) ==
    ByteXor(Intermediate(block_size, 1, shape[1])[block_size - 2],
            (2 + (U8_MAX + 1) - KeyOf(block_size)[block_size - 2]) % (U8_MAX + 1))

\* PlainText::new of a string that ends one byte short of a block; trap: the
\* string's last character is the TrapByte
PlainTextOf(block_size, amount, shape, trap) ==
    [n \in 1..amount |->
        IF n = amount
        THEN [Gen(block_size, 10 + n) EXCEPT
                 ![block_size - 1] = 1,
                 ![block_size - 2] = IF trap THEN TrapByte(block_size, shape) ELSE @]
        ELSE Gen(block_size, 10 + n)]

\* per target block, the kind of its intermediate: for each length no
\* ambiguous block, and for the short texts the first one ambiguous
Shapes(block_size) ==
    IF block_size = Eight
    THEN {sh \in {[n \in 1..len |-> IF n = a THEN 2 ELSE 0] :
                     len \in 1..MaxTargets, a \in {0, 1}} :
             sh[1] = 2 => Len(sh) <= 2} \cup {<<3>>}
    ELSE {<<2>>}

(***************************************************************************)
(* The oracles and the cache files of the runs.                            *)
(***************************************************************************)
ScriptOracle ==
    [location |-> <<"Script", "oracle.sh">>, server |-> "script",
     consider_body |-> FALSE]

WebOracleOf(server, consider_body) ==
    [location |-> <<"Web", "http://target/?q=CTEXT">>, server |-> server,
     consider_body |-> consider_body]

Oracles ==
    {ScriptOracle} \cup {WebOracleOf(sv, cb) : sv \in Servers, cb \in BOOLEAN}

script_cache_config == CacheConfig_new(ScriptOracle.location, None)

\* the signature of a server that answers a padding error with this status
StatusSignature(status) ==
    [status |-> status, location |-> None, content |-> None,
     content_length |-> None]

\* the configs of other attacks: another script, another URL with the
\* signature of the status server, and this URL with another signature
ForeignConfigs ==
    <<CacheConfig_new(<<"Script", "other.sh">>, None),
      CacheConfig_new(<<"Web", "http://other/?q=CTEXT">>, Some(StatusSignature(500))),
      CacheConfig_new(<<"Web", "http://target/?q=CTEXT">>, Some(StatusSignature(403)))>>

\* what those attacks stored for the first block pair of this cypher text:
\* blocks solved under other keys
ForeignData(ct) ==
    [config \in {ForeignConfigs[n] : n \in 1..Len(ForeignConfigs)} |->
        (<<ct.blocks[1], ct.blocks[2]>> :>
            Gen(block_size_of(ct),
                40 + CHOOSE n \in 1..Len(ForeignConfigs) : ForeignConfigs[n] = config))]

FileKinds == {"missing", "empty", "foreign", "corrupt"}

\* cache.bin when the first run starts; corrupt: what a write_all that
\* failed half way has left
InitialFile(kind, ct) ==
    IF kind = "missing" THEN NoFile
    ELSE IF kind = "empty" THEN [exists |-> TRUE, bytes |-> <<>>]
    ELSE IF kind = "foreign"
         THEN [exists |-> TRUE, bytes |-> to_vec(ForeignData(ct))]
         ELSE [exists |-> TRUE,
               bytes |-> SubSeq(to_vec(ForeignData(ct)), 1,
                                Len(to_vec(ForeignData(ct))) \div 2)]

(***************************************************************************)
(* A program invocation: logic_preparation up to the call of logic_main    *)
(***************************************************************************)
decryptor_for(ct, mode) ==
    IF mode THEN new_encryption(ct) ELSE new_decryption_only(ct)

cached_keys(c) ==
    IF IsSome(c) /\ Unwrap(c).config \in DOMAIN Unwrap(c).data
    THEN DOMAIN Unwrap(c).data[Unwrap(c).config]
    ELSE {}

\* the decryptor and the solve_block calls when a run starts
StartState(ct, mode) ==
    LET d == decryptor_for(ct, mode)
    IN  [forged_cypher_texts |-> d,
         pc |-> [t \in 0..Len(d) |-> "idle"],
         fct |-> [t \in 0..Len(d) |-> None],
         attempts |-> [t \in 0..Len(d) |-> 1],
         block_solution |-> [t \in 0..Len(d) |-> None],
         locked |-> [t \in 0..Len(d) |-> <<>>],
         byte_rounds |-> [t \in 0..Len(d) |-> 0],
         asked_oracle |-> [t \in 0..Len(d) |-> FALSE]]

\* the responses to the 256 values of the calibration block's last byte
calibration_responses(forged) ==
    [v \in Byte |->
        from_response(calibration_ask_validation(set_current_byte(forged, v)),
                      oracle.consider_body)]

\* the variant that accepts a single kind of response
determine_without_check(counted) ==
    {[ok |-> TRUE, value |-> response] : response \in max_by_key(counted)}

\* Calibrator::determine_padding_error_response on the counted responses:
\* the Results it may return
determine_padding_error_response(counted) ==
    IF Cardinality(DOMAIN counted) < 2
    THEN {[ok |-> FALSE, value |-> ErrCalibration]}
    ELSE {[ok |-> TRUE, value |-> response] : response \in max_by_key(counted)}

\* Cache::load_from_file unless --no-cache, and the `?` on its result
open_cache(config) ==
    IF no_cache
    THEN /\ cache' = None
         /\ start_cache_keys' = {}
         /\ phase' = "decrypt"
         /\ UNCHANGED <<cache_file, error>>
    ELSE LET file == open_cache_file(cache_file)
             loaded == load_from_file(config, file)
         IN  /\ cache_file' = file
             /\ IF loaded.ok
                THEN /\ cache' = Some(loaded.cache)
                     /\ start_cache_keys' = cached_keys(Some(loaded.cache))
                     /\ phase' = "decrypt"
                     /\ UNCHANGED error
                ELSE /\ cache' = None
                     /\ start_cache_keys' = {}
                     /\ phase' = "failed"
                     /\ error' = ErrCorrupted

\* the variant that loads the cache before the calibration, under the
\* location alone
LogicPreparation_cache_by_location ==
    /\ phase = "prepare"
    /\ IF oracle.location[1] = "Web"
       THEN \E counted \in {counted_responses(
                               calibration_responses(forged_cypher_texts[1]))} :
            \E result \in determine_padding_error_response(counted) :
                /\ calibration' = Some(counted)
                /\ padding_error_response' =
                       IF result.ok THEN Some(result.value) ELSE None
                /\ open_cache(CacheConfig_new(oracle.location, None))
       ELSE /\ UNCHANGED <<padding_error_response, calibration>>
            /\ open_cache(CacheConfig_new(oracle.location, None))
    /\ UNCHANGED <<input_vars, last_insert, forged_cypher_texts, pc, fct,
                   attempts, block_solution, locked, byte_rounds, round_log,
                   asked_oracle, progress, finish_order, decryption_results, enc_vars,
                   output>>

\* logic_preparation: a web oracle is calibrated, then the cache is loaded
\* under the oracle's CacheConfig and logic_main is entered
LogicPreparation ==
    /\ phase = "prepare"
    /\ IF oracle.location[1] = "Web"
       THEN \E counted \in {counted_responses(
                               calibration_responses(forged_cypher_texts[1]))} :
            \E result \in determine_padding_error_response(counted) :
                /\ calibration' = Some(counted)
                /\ IF result.ok
                   THEN /\ padding_error_response' = Some(result.value)
                        /\ open_cache(CacheConfig_new(oracle.location,
                                                      Some(result.value)))
                   ELSE /\ padding_error_response' = None
                        /\ phase' = "failed"
                        /\ error' = result.value
                        /\ UNCHANGED <<cache, cache_file, start_cache_keys>>
       ELSE /\ UNCHANGED <<padding_error_response, calibration>>
            /\ open_cache(CacheConfig_new(oracle.location, None))
    /\ UNCHANGED <<input_vars, last_insert, forged_cypher_texts, pc, fct,
                   attempts, block_solution, locked, byte_rounds, round_log,
                   asked_oracle, progress, finish_order, decryption_results, enc_vars,
                   output>>

(***************************************************************************)
(* The threads of decrypt_blocks, one step of a thread at a time: the      *)
(* closure of a block (its solver), the closures of the candidates of a    *)
(* search round, the mutex of the cache and the mutexes of the dashboard's *)
(* rows.  update_ui_callback is tui.handle_application_event: an event is  *)
(* handled by the thread that sends it.  Every request is answered.        *)
(***************************************************************************)
\* the blocks decrypted in parallel
ParallelBlocks == {1, 2}

\* the search rounds of a block: the bytes it has
MaxRounds == 2

\* two of the 256 closures of a search round: one the oracle says no to and
\* the one it accepts
Candidates == {"rejected", "accepted"}

NoThread == <<>>

SolverOf(t) == <<t, "solver">>

WorkerOf(t, w) == <<t, w>>

\* app_state.forged_blocks, intermediate_blocks, plain_text_blocks, in the
\* order the handlers update them
RowOrder == <<"forged_blocks", "intermediate_blocks", "plain_text_blocks">>

\* where a thread is: at a statement, and in an event handler at a row
At(at, row) == [at |-> at, row |-> row]

Idle == At("idle", 0)

\* the one candidate of a round the oracle accepts
IsValid(t, w) == w = "accepted"

NoWorkers ==
    /\ cache_guard = NoThread
    /\ cache_entries = {}
    /\ solver = [t \in ParallelBlocks |-> [at |-> "idle", row |-> 0, rounds_left |-> 0]]
    /\ candidate = [t \in ParallelBlocks |-> [w \in Candidates |-> Idle]]
    /\ row_guard = [k \in DOMAIN RowOrder |-> NoThread]
    /\ rows = [k \in DOMAIN RowOrder |-> [t \in ParallelBlocks |-> "new"]]
    /\ wips = [t \in ParallelBlocks |-> FALSE]
    /\ solved_sent = [t \in ParallelBlocks |-> FALSE]
    /\ dropped = FALSE

\* all but the threads
run_vars ==
    <<run, key, transport, oracle, no_cache, disk, padding_error_response,
      calibration, cypher_text, encryption_mode, plain_text, cache,
      cache_file, last_insert, forged_cypher_texts, pc, fct, attempts,
      block_solution, locked, byte_rounds, round_log, asked_oracle,
      progress, finish_order, decryption_results, phase, encrypted_blocks_backwards,
      enc_i, enc_steps, output, error, prev_output, chosen_plain,
      same_attack, start_cache_keys, call>>

\* solve_block: cache.lock() of the lookup
LookupLock(t) ==
    /\ solver[t].at = "start"
    /\ cache_guard = NoThread
    /\ cache_guard' = SolverOf(t)
    /\ solver' = [solver EXCEPT ![t].at = "lookup"]
    /\ UNCHANGED <<run_vars, cache_entries, candidate, row_guard, rows, wips,
                   solved_sent, dropped>>

\* the variant that keeps the guard of the lookup for the whole solve_block
LookupDone_keeps_guard(t) ==
    /\ solver[t].at = "lookup"
    /\ IF t \in cache_entries
       THEN /\ solver' = [solver EXCEPT ![t].at = "lock_row", ![t].row = 1]
            /\ solved_sent' = [solved_sent EXCEPT ![t] = TRUE]
            /\ cache_guard' = NoThread
            /\ UNCHANGED candidate
       ELSE /\ solver' = [solver EXCEPT ![t].at = "round"]
            /\ candidate' = [candidate EXCEPT
                                ![t] = [w \in Candidates |-> At("waiting", 0)]]
            /\ UNCHANGED <<solved_sent, cache_guard>>
    /\ UNCHANGED <<run_vars, cache_entries, row_guard, rows, wips, dropped>>

\* solve_block: the lookup under the guard, which is dropped when the
\* statement ends.  On a hit solve_block returns and decrypt_blocks sends
\* BlockSolved; otherwise the first search round begins.
LookupDone(t) ==
    /\ solver[t].at = "lookup"
    /\ cache_guard' = NoThread
    /\ IF t \in cache_entries
       THEN /\ solver' = [solver EXCEPT ![t].at = "lock_row", ![t].row = 1]
            /\ solved_sent' = [solved_sent EXCEPT ![t] = TRUE]
            /\ UNCHANGED candidate
       ELSE /\ solver' = [solver EXCEPT ![t].at = "round"]
            /\ candidate' = [candidate EXCEPT
                                ![t] = [w \in Candidates |-> At("waiting", 0)]]
            /\ UNCHANGED solved_sent
    /\ UNCHANGED <<run_vars, cache_entries, row_guard, rows, wips, dropped>>

\* the closure of a candidate sends its request
Ask(t, w) ==
    /\ solver[t].at = "round"
    /\ candidate[t][w].at = "waiting"
    /\ candidate' = [candidate EXCEPT ![t][w] = At("asking", 0)]
    /\ UNCHANGED <<run_vars, cache_guard, cache_entries, solver, row_guard, rows,
                   wips, solved_sent, dropped>>

\* the request is answered and the closure sends BlockWip
Answer(t, w) ==
    /\ candidate[t][w].at = "asking"
    /\ candidate' = [candidate EXCEPT ![t][w] = At("try_lock", 1)]
    /\ wips' = [wips EXCEPT ![t] = TRUE]
    /\ UNCHANGED <<run_vars, cache_guard, cache_entries, solver, row_guard, rows,
                   solved_sent, dropped>>

\* where the handler of BlockWip goes after a row: to the next row, or back
\* to the closure, which returns Ok(lock_byte()) or Err
AfterRow(t, w, k) ==
    IF k < Len(RowOrder) THEN At("try_lock", k + 1)
    ELSE IF IsValid(t, w) THEN At("ok", 0) ELSE At("invalid", 0)

\* handle_decryption_event, BlockWip: try_lock of a row; the update of the
\* row is dropped when another thread holds the mutex
TryLock(t, w) ==
    /\ candidate[t][w].at = "try_lock"
    /\ \E k \in {candidate[t][w].row} :
           IF row_guard[k] = NoThread
           THEN /\ row_guard' = [row_guard EXCEPT ![k] = WorkerOf(t, w)]
                /\ candidate' = [candidate EXCEPT ![t][w] = At("write", k)]
                /\ UNCHANGED dropped
           ELSE /\ dropped' = TRUE
                /\ candidate' = [candidate EXCEPT ![t][w] = AfterRow(t, w, k)]
                /\ UNCHANGED row_guard
    /\ UNCHANGED <<run_vars, cache_guard, cache_entries, solver, rows, wips,
                   solved_sent>>

\* handle_decryption_event, BlockWip: the row is written and its guard
\* dropped
WriteWip(t, w) ==
    /\ candidate[t][w].at = "write"
    /\ \E k \in {candidate[t][w].row} :
           /\ rows' = [rows EXCEPT ![k][t] = "wip"]
           /\ row_guard' = [row_guard EXCEPT ![k] = NoThread]
           /\ candidate' = [candidate EXCEPT ![t][w] = AfterRow(t, w, k)]
    /\ UNCHANGED <<run_vars, cache_guard, cache_entries, solver, wips,
                   solved_sent, dropped>>

\* find_any: a candidate that has not begun is not run once one was found
Skip(t, w) ==
    /\ candidate[t][w].at = "waiting"
    /\ \E v \in Candidates : candidate[t][v].at = "ok"
    /\ candidate' = [candidate EXCEPT ![t][w] = At("skipped", 0)]
    /\ UNCHANGED <<run_vars, cache_guard, cache_entries, solver, row_guard, rows,
                   wips, solved_sent, dropped>>

\* the variant whose find_any returns with the first Ok, the other closures
\* still running
RoundEnd_first_found(t) ==
    /\ solver[t].at = "round"
    /\ \E w \in Candidates : candidate[t][w].at = "ok"
    /\ IF solver[t].rounds_left > 1
       THEN /\ solver' = [solver EXCEPT ![t].rounds_left = @ - 1]
            /\ candidate' = [candidate EXCEPT
                                ![t] = [w \in Candidates |-> At("waiting", 0)]]
       ELSE /\ solver' = [solver EXCEPT ![t].at = "insert_wait",
                                        ![t].rounds_left = 0]
            /\ candidate' = [candidate EXCEPT
                                ![t] = [w \in Candidates |->
                                           IF candidate[t][w].at \in
                                                  {"ok", "invalid", "skipped", "waiting"}
                                           THEN Idle ELSE candidate[t][w]]]
    /\ UNCHANGED <<run_vars, cache_guard, cache_entries, row_guard, rows, wips,
                   solved_sent, dropped>>

\* find_any returns: every closure of the round has returned or was not
\* run, and one returned Ok.  The byte is locked; the next round begins, or
\* the block is solved.
RoundEnd(t) ==
    /\ solver[t].at = "round"
    /\ \A w \in Candidates : candidate[t][w].at \in {"ok", "invalid", "skipped"}
    /\ \E w \in Candidates : candidate[t][w].at = "ok"
    /\ IF solver[t].rounds_left > 1
       THEN /\ solver' = [solver EXCEPT ![t].rounds_left = @ - 1]
            /\ candidate' = [candidate EXCEPT
                                ![t] = [w \in Candidates |-> At("waiting", 0)]]
       ELSE /\ solver' = [solver EXCEPT ![t].at = "insert_wait",
                                        ![t].rounds_left = 0]
            /\ candidate' = [candidate EXCEPT ![t] = [w \in Candidates |-> Idle]]
    /\ UNCHANGED <<run_vars, cache_guard, cache_entries, row_guard, rows, wips,
                   solved_sent, dropped>>

\* solve_block: cache.lock() of the insert
InsertLock(t) ==
    /\ solver[t].at = "insert_wait"
    /\ cache_guard = NoThread
    /\ cache_guard' = SolverOf(t)
    /\ solver' = [solver EXCEPT ![t].at = "insert"]
    /\ UNCHANGED <<run_vars, cache_entries, candidate, row_guard, rows, wips,
                   solved_sent, dropped>>

\* solve_block: the insert under the guard, which is dropped when the
\* statement ends; solve_block returns and decrypt_blocks sends BlockSolved
InsertDone(t) ==
    /\ solver[t].at = "insert"
    /\ cache_entries' = cache_entries \cup {t}
    /\ cache_guard' = NoThread
    /\ solver' = [solver EXCEPT ![t].at = "lock_row", ![t].row = 1]
    /\ solved_sent' = [solved_sent EXCEPT ![t] = TRUE]
    /\ UNCHANGED <<run_vars, candidate, row_guard, rows, wips, dropped>>

\* handle_decryption_event, BlockSolved: lock() of a row waits for its mutex
SolvedLock(t) ==
    /\ solver[t].at = "lock_row"
    /\ row_guard[solver[t].row] = NoThread
    /\ row_guard' = [row_guard EXCEPT ![solver[t].row] = SolverOf(t)]
    /\ solver' = [solver EXCEPT ![t].at = "write_row"]
    /\ UNCHANGED <<run_vars, cache_guard, cache_entries, candidate, rows, wips,
                   solved_sent, dropped>>

\* handle_decryption_event, BlockSolved: the row is written and its guard
\* dropped
SolvedWrite(t) ==
    /\ solver[t].at = "write_row"
    /\ \E k \in {solver[t].row} :
           /\ rows' = [rows EXCEPT ![k][t] = "solution"]
           /\ row_guard' = [row_guard EXCEPT ![k] = NoThread]
           /\ solver' = [solver EXCEPT
                            ![t] = IF k < Len(RowOrder)
                                   THEN [@ EXCEPT !.at = "lock_row", !.row = k + 1]
                                   ELSE [@ EXCEPT !.at = "done", !.row = 0]]
    /\ UNCHANGED <<run_vars, cache_guard, cache_entries, candidate, wips,
                   solved_sent, dropped>>

\* the first run of the program on the inputs given
FirstRun(b, caching, tr, sh, p, trap, orc, file0, dk) ==
    LET ct == CypherTextOf(b, sh)
        st == StartState(ct, p > 0)
    IN  /\ run = 1
        /\ key = KeyOf(b)
        /\ transport = tr
        /\ oracle = orc
        /\ no_cache = ~caching
        /\ disk = dk
        /\ padding_error_response = None
        /\ calibration = None
        /\ cypher_text = ct
        /\ encryption_mode = (p > 0)
        /\ plain_text = IF p > 0 THEN Some(PlainTextOf(b, p, sh, trap)) ELSE None
        /\ cache_file = InitialFile(file0, ct)
        /\ last_insert = NoInsert
        /\ forged_cypher_texts = st.forged_cypher_texts
        /\ cache = None
        /\ start_cache_keys = {}
        /\ pc = st.pc
        /\ fct = st.fct
        /\ attempts = st.attempts
        /\ block_solution = st.block_solution
        /\ locked = st.locked
        /\ byte_rounds = st.byte_rounds
        /\ round_log = EmptyLog
        /\ asked_oracle = st.asked_oracle
        /\ progress = 0
        /\ finish_order = <<>>
        /\ decryption_results = None
        /\ phase = "prepare"
        /\ encrypted_blocks_backwards = <<>>
        /\ enc_i = 0
        /\ enc_steps = <<>>
        /\ output = None
        /\ error = NoError
        /\ prev_output = None
        /\ chosen_plain = None
        /\ same_attack = FALSE

Init ==
    \E b \in BlockSizes, caching \in BOOLEAN, tr \in {"reliable", "flaky"} :
    \E sh \in Shapes(b), p \in 0..MaxPlainBlocks, trap \in BOOLEAN :
    \E orc \in Oracles, file0 \in FileKinds, dk \in {"ok", "faulty"} :
        /\ p > 0 => sh \in {<<0>>, <<2>>, <<0, 0>>}
        /\ (caching /\ Len(sh) > 1) => sh[1] = 0
        /\ Len(sh) > 2 => caching
        /\ p > 2 => caching
        /\ trap => (p > 1 /\ sh = <<0>> /\ b = Eight /\ tr = "reliable")
        /\ tr = "flaky" => (b = Eight /\ p = 0 /\ ~caching /\ sh \in {<<0>>, <<2>>})
        /\ b = Sixteen => p <= 1
        /\ orc # ScriptOracle =>
               (b = Eight /\ p = 0 /\ tr = "reliable" /\ sh \in {<<0>>, <<2>>}
                   /\ dk = "ok"
                   /\ (caching => orc = WebOracleOf("status", FALSE)))
        /\ file0 # "missing" =>
               (caching /\ b = Eight /\ p = 0 /\ tr = "reliable" /\ sh = <<0>>
                   /\ dk = "ok"
                   /\ orc \in {ScriptOracle, WebOracleOf("status", FALSE)})
        /\ dk = "faulty" =>
               (caching /\ orc = ScriptOracle /\ b = Eight /\ tr = "reliable"
                   /\ file0 = "missing"
                   /\ \/ p = 0 /\ sh \in {<<0>>, <<0, 0>>}
                      \/ p = 1 /\ sh = <<0>>)
        /\ FirstRun(b, caching, tr, sh, p, trap, orc, file0, dk)
        /\ call = NoCall
        /\ NoWorkers

\* the program is run again: the same attack (against a cache file; without
\* one the run would repeat the one before), or the decryption of the cypher
\* text the run before has forged.  The cache file is what outlives a run.
NextRun ==
    /\ phase \in {"done", "failed"}
    /\ run < MaxRuns
    /\ \E feed_back \in BOOLEAN :
         /\ feed_back => (phase = "done" /\ encryption_mode)
         /\ ~feed_back => ~no_cache
         /\ LET ct == IF feed_back THEN Unwrap(output) ELSE cypher_text
                mode == IF feed_back THEN FALSE ELSE encryption_mode
                st == StartState(ct, mode)
            IN  /\ cypher_text' = ct
                /\ encryption_mode' = mode
                /\ plain_text' = IF feed_back THEN None ELSE plain_text
                /\ chosen_plain' = IF feed_back THEN plain_text ELSE chosen_plain
                /\ same_attack' = ~feed_back
                /\ forged_cypher_texts' = st.forged_cypher_texts
                /\ pc' = st.pc
                /\ fct' = st.fct
                /\ attempts' = st.attempts
                /\ block_solution' = st.block_solution
                /\ locked' = st.locked
                /\ byte_rounds' = st.byte_rounds
                /\ round_log' = EmptyLog
                /\ asked_oracle' = st.asked_oracle
    /\ progress' = 0
    /\ run' = run + 1
    /\ cache' = None
    /\ start_cache_keys' = {}
    /\ last_insert' = NoInsert
    /\ padding_error_response' = None
    /\ calibration' = None
    /\ prev_output' = output
    /\ finish_order' = <<>>
    /\ decryption_results' = None
    /\ phase' = "prepare"
    /\ encrypted_blocks_backwards' = <<>>
    /\ enc_i' = 0
    /\ enc_steps' = <<>>
    /\ output' = None
    /\ error' = NoError
    /\ UNCHANGED <<key, transport, oracle, no_cache, disk, cache_file, call,
                   worker_vars>>

Next ==
    \/ LogicPreparation
    \/ \E t \in Tasks : SearchByte(t)
    \/ \E t \in Tasks : DecryptBlockStart(t)
    \/ \E t \in Tasks : DecryptBlockSkip(t)
    \/ DecryptReturn
    \/ EncryptFirstBlock
    \/ EncryptSolveBlock
    \/ EncryptPrepend
    \/ EncryptFail
    \/ EncryptReturn
    \/ NextRun

Spec == Init /\ [][Next]_vars

\* what a search round does to the history of the call: a byte is locked, or
\* one more round of the byte has failed.  In a behaviour of Spec these are
\* the SearchByte steps and no others.
SearchRound(t) ==
    /\ pc[t] = "search"
    /\ \/ /\ locked' = [locked EXCEPT ![t] = Append(@, fct[t].current_byte_idx)]
          /\ byte_rounds' = [byte_rounds EXCEPT ![t] = 0]
       \/ /\ byte_rounds' = [byte_rounds EXCEPT ![t] = @ + 1]
          /\ UNCHANGED locked

\* every oracle request returns, so the solve_block calls that are running
\* get through their search rounds
Live == Spec /\ WF_<<locked, byte_rounds>>(\E t \in Tasks : SearchRound(t))

(***************************************************************************)
(* The functions called on their own, each on inputs of a sample: a call   *)
(* sets the variable call to the function, its arguments and what it       *)
(* returned.  The attack stands still.                                     *)
(***************************************************************************)
\* the seeds of the sample blocks
MaxSeed == 2

SampleBlocks ==
    {Block_new(b) : b \in BlockSizes}
        \cup {Gen(b, seed) : b \in BlockSizes, seed \in 1..MaxSeed}
        \cup {[i \in 0..(b - 1) |-> U8_MAX] : b \in BlockSizes}

SampleBytes == {0, 1, 2, 127, U8_MAX}

\* the bytes of an input string of the length given
MaxInputLen == 33

InputBytes(len, seed) == [n \in 1..len |-> 33 + ((seed * 29 + n * 7) % 90)]

\* slice.chunks(size): the last chunk holds what is left
chunks(bytes, size) ==
    [n \in 1..((Len(bytes) + size - 1) \div size) |->
        SubSeq(bytes, (n - 1) * size + 1,
               IF n * size < Len(bytes) THEN n * size ELSE Len(bytes))]

\* the variant that adds no padding to a whole number of blocks
PlainText_new_unpadded_when_whole(input_data, block_size) ==
    LET padding_size == (block_size - (Len(input_data) % block_size)) % block_size
        padded == input_data \o [n \in 1..padding_size |-> padding_size]
        chunked == chunks(padded, block_size)
    IN  [n \in 1..Len(chunked) |-> Arr(chunked[n])]

\* PlainText::new: the blocks of the PKCS7 padded input
PlainText_new(input_data, block_size) ==
    LET padding_size == block_size - (Len(input_data) % block_size)
        padded == input_data \o [n \in 1..padding_size |-> padding_size]
        chunked == chunks(padded, block_size)
    IN  [n \in 1..Len(chunked) |-> Arr(chunked[n])]

CallPlainTextNew ==
    /\ call = NoCall
    /\ \E len \in 0..MaxInputLen, seed \in 1..MaxSeed, block_size \in BlockSizes :
           call' = Call("PlainText::new", <<InputBytes(len, seed), block_size>>,
                        PlainText_new(InputBytes(len, seed), block_size))
    /\ UNCHANGED attack_vars

\* Block::set_byte(index, value)
CallSetByte ==
    /\ call = NoCall
    /\ \E block \in SampleBlocks, value \in SampleBytes :
       \E index \in {0, 1, BlockLen(block) - 1, BlockLen(block), Sixteen} :
           call' = Call("set_byte", <<block, index, value>>,
                        set_byte(block, index, value))
    /\ UNCHANGED attack_vars

\* &a ^ &b, and the result ^ &b
CallBitXor ==
    /\ call = NoCall
    /\ \E a \in SampleBlocks, b \in SampleBlocks :
           call' = Call("bitxor", <<a, b>>,
                        LET first == BlockXor(a, b)
                        IN  [first |-> first,
                             again |-> IF first = XorErr THEN XorErr
                                       ELSE BlockXor(first, b)])
    /\ UNCHANGED attack_vars

\* Result<T>
Ok(value) == [ok |-> TRUE, value |-> value, error |-> NoError]

Err(e) == [ok |-> FALSE, value |-> <<>>, error |-> e]

ErrPathInvalid == "Path invalid. Double check the path"
ErrScriptExecution == "Script execution failed"

\* what Command::status() of `/bin/sh -c "<path> <cypher text>"` comes back
\* with: the process could not be started, it exited with a code, or a
\* signal ended it (ExitStatus::code() is None)
Statuses ==
    {[started |-> FALSE, code |-> None]}
        \cup {[started |-> TRUE, code |-> Some(n)] : n \in {0, 1, 2, 126, 127, U8_MAX}}
        \cup {[started |-> TRUE, code |-> None]}

\* ExitStatus::success()
success(status) == status.code = Some(0)

\* the variant that takes a non-zero exit for a failure of the oracle
ScriptOracle_ask_validation_exit_is_error(path_is_utf8, status) ==
    IF ~path_is_utf8 THEN Err(ErrPathInvalid)
    ELSE IF ~status.started \/ ~success(status) THEN Err(ErrScriptExecution)
    ELSE Ok(TRUE)

\* ScriptOracle::ask_validation: Result<bool>
ScriptOracle_ask_validation(path_is_utf8, status) ==
    IF ~path_is_utf8 THEN Err(ErrPathInvalid)
    ELSE IF ~status.started THEN Err(ErrScriptExecution)
    ELSE Ok(success(status))

\* what validate_while_handling_retries matches the Result on
response_of(answer) ==
    IF ~answer.ok THEN "error" ELSE IF answer.value THEN "valid" ELSE "invalid"

\* the script oracle asked by a candidate's worker, the script ending the
\* same way at every attempt
CallScriptAskValidation ==
    /\ call = NoCall
    /\ \E path_is_utf8 \in BOOLEAN, status \in Statuses :
         \E answer \in {ScriptOracle_ask_validation(path_is_utf8, status)} :
           call' = Call("ScriptOracle::ask_validation", <<path_is_utf8, status>>,
                        [answer |-> answer,
                         worker |-> retry_with_index(1,
                                        [attempt \in 1..(RETRY_MAX_ATTEMPTS + 1) |->
                                            response_of(answer)], <<>>)])
    /\ UNCHANGED attack_vars

ErrKeyword == "Keyword not found in URL, headers, or POST data"

\* str::contains on strings as sequences of characters; the empty pattern
\* is found in every string
contains(text, pattern) ==
    \E at \in 1..(Len(text) - Len(pattern) + 1) :
        SubSeq(text, at, at + Len(pattern) - 1) = pattern

\* keyword_location: Vec<KeywordLocation>, in the order Url, PostData,
\* Headers; the headers are numbered from 0
keyword_location(url, config) ==
    LET headers_with_keyword ==
            {idx \in 0..(Len(config.headers) - 1) :
                \/ contains(config.headers[idx + 1][1], config.keyword)
                \/ contains(config.headers[idx + 1][2], config.keyword)}
    IN  (IF contains(url, config.keyword) THEN <<[kind |-> "Url"]>> ELSE <<>>)
        \o (IF contains(IF IsSome(config.post_data)
                        THEN Unwrap(config.post_data) ELSE <<>>,
                        config.keyword)
            THEN <<[kind |-> "PostData"]>> ELSE <<>>)
        \o (IF headers_with_keyword # {}
            THEN <<[kind |-> "Headers",
                    headers |->
                        [idx \in headers_with_keyword |->
                            [keyword_in_name |->
                                 contains(config.headers[idx + 1][1], config.keyword),
                             keyword_in_value |->
                                 contains(config.headers[idx + 1][2], config.keyword)]]]>>
            ELSE <<>>)

\* WebOracle::visit: Result<WebOracle>
WebOracle_visit(url, config) ==
    LET keyword_locations == keyword_location(url, config)
    IN  IF keyword_locations = <<>> THEN Err(ErrKeyword)
        ELSE Ok([url |-> url, config |-> config,
                 keyword_locations |-> keyword_locations])

\* CalibrationWebOracle::visit: Result<CalibrationWebOracle>
CalibrationWebOracle_visit(url, config) ==
    LET keyword_locations == keyword_location(url, config)
    IN  IF keyword_locations = <<>> THEN Err(ErrKeyword)
        ELSE Ok([url |-> url, config |-> config,
                 keyword_locations |-> keyword_locations])

\* the URLs, --data values, --header values and --keyword values of the
\* sample: the characters of the keyword "CT" occur together, apart, or not
SampleUrls ==
    {<<"u", "/">>, <<"u", "/", "C", "T">>, <<"u", "C", "/", "T">>}

SamplePostData ==
    {None, Some(<<"d", "=">>), Some(<<"d", "=", "C", "T">>)}

SampleHeader ==
    {<<name, value>> :
        name \in {<<"A">>, <<"C", "T">>}, value \in {<<"v">>, <<"v", "C", "T">>}}

SampleHeaders ==
    {<<>>} \cup {<<h>> : h \in SampleHeader}
           \cup {<<g, h>> : g \in SampleHeader, h \in SampleHeader}

SampleKeywords == {<<"C", "T">>, <<"T", "C">>, <<>>}

CallVisit ==
    /\ call = NoCall
    /\ \E url \in SampleUrls, post_data \in SamplePostData :
       \E headers \in SampleHeaders, keyword \in SampleKeywords :
       \E config \in {[post_data |-> post_data, headers |-> headers,
                        keyword |-> keyword]} :
           \/ call' = Call("WebOracle::visit", <<url, config>>,
                           WebOracle_visit(url, config))
           \/ call' = Call("CalibrationWebOracle::visit", <<url, config>>,
                           CalibrationWebOracle_visit(url, config))
    /\ UNCHANGED attack_vars

ErrSend == "Failed to send request"
ErrText == "error decoding response body"
ErrNotCalibrated == "Web oracle was not calibrated"

\* the responses of a server: two statuses, with and without a Location
\* header, two bodies, with and without a Content-Length
SampleResponses ==
    [status : {200, 500}, location : {None, Some("/error")},
     body : {"welcome", "padding error"}, content_length : {None, Some(7)}]

\* how request.send() and, with --consider-body, response.text() ended
Sent(kind, response) == [kind |-> kind, response |-> response]

\* the variant that compares the body whatever --consider-body says
WebOracle_ask_validation_with_body(sent, consider_body, signature) ==
    IF sent.kind = "send_failed" THEN Err(ErrSend)
    ELSE IF consider_body /\ sent.kind = "text_failed" THEN Err(ErrText)
    ELSE IF signature = None THEN Err(ErrNotCalibrated)
    ELSE Ok(\/ from_response(sent.response, consider_body) # Unwrap(signature)
            \/ sent.response.body # "padding error")

\* WebOracle::ask_validation: Result<bool>.  The request is sent and the
\* CalibrationResponse built before the signature is asked for.
WebOracle_ask_validation(sent, consider_body, signature) ==
    IF sent.kind = "send_failed" THEN Err(ErrSend)
    ELSE IF consider_body /\ sent.kind = "text_failed" THEN Err(ErrText)
    ELSE IF signature = None THEN Err(ErrNotCalibrated)
    ELSE Ok(from_response(sent.response, consider_body) # Unwrap(signature))

\* a web oracle that was not calibrated is asked
CallWebAskUncalibrated ==
    /\ call = NoCall
    /\ \E kind \in {"send_failed", "text_failed", "received"} :
       \E response \in SampleResponses, consider_body \in BOOLEAN :
           call' = Call("WebOracle::ask_validation",
                        <<Sent(kind, response), consider_body, None>>,
                        WebOracle_ask_validation(Sent(kind, response),
                                                 consider_body, None))
    /\ UNCHANGED attack_vars

\* a calibrated web oracle is asked twice, the two responses differing in
\* the body and the Content-Length at most
CallWebAskCalibrated ==
    /\ call = NoCall
    /\ \E first \in SampleResponses, padding_error \in SampleResponses :
       \E second \in {r \in SampleResponses : /\ r.status = first.status
                                             /\ r.location = first.location} :
       \E consider_body \in BOOLEAN :
       \E signature \in {Some(from_response(padding_error, consider_body))} :
           call' = Call("WebOracle::ask_validation twice",
                        <<first, second, padding_error, consider_body>>,
                        <<WebOracle_ask_validation(Sent("received", first),
                                                   consider_body, signature),
                          WebOracle_ask_validation(Sent("received", second),
                                                   consider_body, signature)>>)
    /\ UNCHANGED attack_vars

\* the forged state a call has made, if it made one
MadeForged ==
    \/ call.op \in {"from_cypher_text", "from_slice", "set_current_byte"}
    \/ call.op = "lock_byte" /\ call.result.kind = "BytesLeft"

Forged ==
    IF call.op = "lock_byte" THEN call.result.value ELSE call.result

\* the first bytes of a block, whose locking is tried with and without a
\* value set
MaxChoiceBytes == 4

\* ForgedCypherText::from_cypher_text and from_slice
CallNewForged ==
    /\ call = NoCall
    /\ \E b \in BlockSizes :
         \E cypher \in {CypherTextOf(b, <<0>>)} :
           \/ call' = Call("from_cypher_text", <<cypher, 1>>,
                           from_cypher_text(cypher, 1))
           \/ call' = Call("from_slice", <<cypher.blocks, b, TRUE, "Base64">>,
                           from_slice(cypher.blocks, b, TRUE, "Base64"))
    /\ UNCHANGED attack_vars

\* ForgedCypherText::set_current_byte on a state whose current byte is unset
CallSetCurrentByte ==
    /\ MadeForged
    /\ call.op # "set_current_byte"
    /\ \E value \in {1 + ((Forged.current_byte_idx * 37) % U8_MAX)} :
           call' = Call("set_current_byte", <<Forged, value>>,
                        set_current_byte(Forged, value))
    /\ UNCHANGED attack_vars

\* ForgedCypherText::lock_byte
CallLockByte ==
    /\ MadeForged
    /\ call.op # "set_current_byte" => bytes_answered(Forged) < MaxChoiceBytes
    /\ call' = Call("lock_byte", <<Forged>>, lock_byte(Forged))
    /\ UNCHANGED attack_vars

\* the bytes of a sequence of blocks, one after the other
RECURSIVE Flatten(_)
Flatten(blocks) ==
    IF blocks = <<>> THEN <<>>
    ELSE [n \in 1..BlockLen(Head(blocks)) |-> Head(blocks)[n - 1]]
             \o Flatten(Tail(blocks))

(***************************************************************************)
(* The encodings of a cypher text.  A str is the sequence of the bytes of  *)
(* its UTF-8 form: '0' is 48, 'A' 65, 'a' 97, '%' 37, '=' 61.              *)
(***************************************************************************)
ErrHex == "Invalid encoding for cypher text specified: not valid hex"
ErrBase64 == "Invalid encoding for cypher text specified: not valid base64"
ErrEncoding == "invalid or unsupported encoding"
ErrUtf8 == "invalid utf-8 sequence"
ErrSplit == "Splitting cypher text into blocks failed. Double check the block size"
ErrOneBlock == "Decryption impossible with only 1 block"

\* the value of a hex digit of either case, -1 for any other character
hex_val(c) ==
    IF c \in 48..57 THEN c - 48
    ELSE IF c \in 97..102 THEN c - 87
    ELSE IF c \in 65..70 THEN c - 55
    ELSE -1

\* hex::decode
hex_decode(text) ==
    IF Len(text) % 2 # 0 \/ \E n \in 1..Len(text) : hex_val(text[n]) = -1
    THEN Err(ErrHex)
    ELSE Ok([n \in 1..(Len(text) \div 2) |->
                16 * hex_val(text[2 * n - 1]) + hex_val(text[2 * n])])

\* the variant of hex::encode that writes upper case digits
hex_encode_upper(bytes) ==
    [n \in 1..(2 * Len(bytes)) |->
        LET v == IF n % 2 = 1 THEN bytes[(n + 1) \div 2] \div 16
                 ELSE bytes[n \div 2] % 16
        IN  IF v < 10 THEN 48 + v ELSE 55 + v]

\* hex::encode: lower case digits
hex_encode(bytes) ==
    [n \in 1..(2 * Len(bytes)) |->
        LET v == IF n % 2 = 1 THEN bytes[(n + 1) \div 2] \div 16
                 ELSE bytes[n \div 2] % 16
        IN  IF v < 10 THEN 48 + v ELSE 87 + v]

\* the two characters in which the alphabets of base64 differ
STANDARD == [c62 |-> 43, c63 |-> 47]

URL_SAFE == [c62 |-> 45, c63 |-> 95]

base64_val(c, config) ==
    IF c \in 65..90 THEN c - 65
    ELSE IF c \in 97..122 THEN c - 71
    ELSE IF c \in 48..57 THEN c + 4
    ELSE IF c = config.c62 THEN 62
    ELSE IF c = config.c63 THEN 63
    ELSE -1

base64_char(v, config) ==
    IF v < 26 THEN 65 + v
    ELSE IF v < 52 THEN 71 + v
    ELSE IF v < 62 THEN v - 4
    ELSE IF v = 62 THEN config.c62
    ELSE config.c63

\* base64::encode_config: six bits a character, '=' up to a multiple of four
base64_encode_config(bytes, config) ==
    LET symbols == (8 * Len(bytes) + 5) \div 6
        padding == (4 - (symbols % 4)) % 4
        byte_at(n) == IF n \in 1..Len(bytes) THEN bytes[n] ELSE 0
        sextet(k) ==
            LET bit == 6 * (k - 1)
            IN  ((byte_at((bit \div 8) + 1) * 256 + byte_at((bit \div 8) + 2))
                    \div (2 ^ (10 - (bit % 8)))) % 64
    IN  [k \in 1..(symbols + padding) |->
            IF k <= symbols THEN base64_char(sextet(k), config) ELSE 61]

\* base64::decode_config: the padding may be left out, but what is there
\* fills the last group of four; the bits left over are zero
base64_decode_config(text, config) ==
    LET padding ==
            IF Len(text) >= 2 /\ text[Len(text)] = 61 /\ text[Len(text) - 1] = 61
            THEN 2
            ELSE IF Len(text) >= 1 /\ text[Len(text)] = 61 THEN 1 ELSE 0
        symbols == SubSeq(text, 1, Len(text) - padding)
        value(k) == IF k \in 1..Len(symbols)
                    THEN base64_val(symbols[k], config) ELSE 0
        trailing == (6 * Len(symbols)) % 8
    IN  IF \/ \E k \in 1..Len(symbols) : base64_val(symbols[k], config) = -1
           \/ Len(symbols) % 4 = 1
           \/ padding > 0 /\ Len(text) % 4 # 0
           \/ trailing > 0 /\ value(Len(symbols)) % (2 ^ trailing) # 0
        THEN Err(ErrBase64)
        ELSE Ok([j \in 1..((6 * Len(symbols)) \div 8) |->
                    LET bit == 8 * (j - 1)
                    IN  ((value((bit \div 6) + 1) * 64 + value((bit \div 6) + 2))
                            \div (2 ^ (4 - (bit % 6)))) % 256])

\* the characters urlencoding::encode leaves as they are: A-Z a-z 0-9 - _ . ~
unreserved(c) ==
    c \in (48..57) \cup (65..90) \cup (97..122) \cup {45, 95, 46, 126}

\* urlencoding::encode: %XX in upper case for every other byte
RECURSIVE urlencoding_encode(_)
urlencoding_encode(text) ==
    IF text = <<>> THEN <<>>
    ELSE (IF unreserved(Head(text)) THEN <<Head(text)>>
          ELSE <<37,
                 (LET v == Head(text) \div 16 IN IF v < 10 THEN 48 + v ELSE 55 + v),
                 (LET v == Head(text) % 16 IN IF v < 10 THEN 48 + v ELSE 55 + v)>>)
         \o urlencoding_encode(Tail(text))

\* the bytes urlencoding::decode reads: %XX with hex digits of either case
\* is one byte, every other character is itself
RECURSIVE decode_binary(_)
decode_binary(text) ==
    IF text = <<>> THEN <<>>
    ELSE IF /\ Head(text) = 37
            /\ Len(text) >= 3
            /\ hex_val(text[2]) # -1
            /\ hex_val(text[3]) # -1
         THEN <<16 * hex_val(text[2]) + hex_val(text[3])>>
                  \o decode_binary(SubSeq(text, 4, Len(text)))
         ELSE <<Head(text)>> \o decode_binary(Tail(text))

\* urlencoding::decode: Err when the bytes are no UTF-8.  Bytes below 128
\* are UTF-8; a text with a byte from 128 on is taken as not UTF-8, and
\* where it is UTF-8 after all no encoding of a cypher text accepts it.
urlencoding_decode(text) ==
    LET bytes == decode_binary(text)
    IN  IF \E n \in 1..Len(bytes) : bytes[n] >= 128 THEN Err(ErrUtf8)
        ELSE Ok(bytes)

\* decode(input_data, encoding): Result<(Vec<u8>, Encoding)>; encoding is
\* an EncodingOption, "Auto" or one of the three encodings
auto_decode(input_data) ==
    IF hex_decode(input_data).ok
    THEN Ok([data |-> hex_decode(input_data).value, used_encoding |-> "Hex"])
    ELSE IF base64_decode_config(input_data, STANDARD).ok
    THEN Ok([data |-> base64_decode_config(input_data, STANDARD).value,
             used_encoding |-> "Base64"])
    ELSE IF base64_decode_config(input_data, URL_SAFE).ok
    THEN Ok([data |-> base64_decode_config(input_data, URL_SAFE).value,
             used_encoding |-> "Base64Url"])
    ELSE Err(ErrEncoding)

forced_decode(input_data, encoding) ==
    LET decoded_data ==
            IF encoding = "Hex" THEN hex_decode(input_data)
            ELSE IF encoding = "Base64"
            THEN base64_decode_config(input_data, STANDARD)
            ELSE base64_decode_config(input_data, URL_SAFE)
    IN  IF decoded_data.ok
        THEN Ok([data |-> decoded_data.value, used_encoding |-> encoding])
        ELSE decoded_data

decode(input_data, encoding) ==
    IF encoding = "Auto" THEN auto_decode(input_data)
    ELSE forced_decode(input_data, encoding)

\* split_into_blocks: chunks_exact of a whole number of blocks
split_into_blocks(decoded_data, block_size) ==
    IF Len(decoded_data) % block_size # 0 THEN Err(ErrSplit)
    ELSE Ok([n \in 1..(Len(decoded_data) \div block_size) |->
                Arr(SubSeq(decoded_data, (n - 1) * block_size + 1, n * block_size))])

\* the variant of CypherText::parse that takes every text it URL-decoded
\* for URL-encoded
CypherText_parse_url_flag_by_option(input_data, block_size, no_iv, encoding, no_url_encode) ==
    LET url_decoded ==
            IF no_url_encode \/ ~urlencoding_decode(input_data).ok
            THEN input_data
            ELSE urlencoding_decode(input_data).value
        decoded == decode(url_decoded, encoding)
        split == split_into_blocks(decoded.value.data, block_size)
        blocks == IF no_iv THEN <<Block_new(block_size)>> \o split.value
                  ELSE split.value
    IN  IF ~decoded.ok THEN decoded
        ELSE IF ~split.ok THEN split
        ELSE IF Len(blocks) = 1 THEN Err(ErrOneBlock)
        ELSE Ok([blocks |-> blocks,
                 url_encoded |-> ~no_url_encode,
                 used_encoding |-> decoded.value.used_encoding])

\* CypherText::parse: Result<CypherText>
CypherText_parse(input_data, block_size, no_iv, encoding, no_url_encode) ==
    LET url_decoded ==
            IF no_url_encode \/ ~urlencoding_decode(input_data).ok
            THEN input_data
            ELSE urlencoding_decode(input_data).value
        decoded == decode(url_decoded, encoding)
        split == split_into_blocks(decoded.value.data, block_size)
        blocks == IF no_iv THEN <<Block_new(block_size)>> \o split.value
                  ELSE split.value
    IN  IF ~decoded.ok THEN decoded
        ELSE IF ~split.ok THEN split
        ELSE IF Len(blocks) = 1 THEN Err(ErrOneBlock)
        ELSE Ok([blocks |-> blocks,
                 url_encoded |-> input_data # url_decoded,
                 used_encoding |-> decoded.value.used_encoding])

\* CypherText::encode
CypherText_encode(this) ==
    LET raw_bytes == Flatten(this.blocks)
        encoded_data ==
            IF this.used_encoding = "Hex" THEN hex_encode(raw_bytes)
            ELSE IF this.used_encoding = "Base64"
            THEN base64_encode_config(raw_bytes, STANDARD)
            ELSE base64_encode_config(raw_bytes, URL_SAFE)
    IN  IF this.url_encoded THEN urlencoding_encode(encoded_data)
        ELSE encoded_data

\* the bytes of a cypher text of the length given
CypherBytes(len, seed) == [n \in 1..len |-> (seed * 83 + n * 37 + 211) % 256]

\* every second character of the text in the other case
mixed_case(text) ==
    [n \in 1..Len(text) |->
        IF n % 2 = 0 /\ text[n] \in 97..122 THEN text[n] - 32 ELSE text[n]]

\* %XX with the hex digits in lower case
lower_escapes(text) ==
    [n \in 1..Len(text) |->
        IF n > 1 /\ text[n] \in 65..70
              /\ (text[n - 1] = 37 \/ (n > 2 /\ text[n - 2] = 37))
        THEN text[n] + 32 ELSE text[n]]

\* the ways the user may write the bytes of a cypher text down
Written(bytes) ==
    LET plain == {hex_encode(bytes), hex_encode_upper(bytes),
                  mixed_case(hex_encode(bytes)),
                  base64_encode_config(bytes, STANDARD),
                  base64_encode_config(bytes, URL_SAFE)}
    IN  plain \cup {urlencoding_encode(text) : text \in plain}
              \cup {lower_escapes(urlencoding_encode(text)) : text \in plain}

\* the lengths of the sample of cypher texts: whole, half and broken blocks
MaxCypherLen == 32

CypherLens == {len \in 0..MaxCypherLen : len % 4 = 0} \cup {1}

EncodingOptions == {"Auto", "Hex", "Base64", "Base64Url"}

\* parse, and encode what was parsed
CallParse ==
    /\ call = NoCall
    /\ \E len \in CypherLens, seed \in 1..MaxSeed, block_size \in BlockSizes :
       \E input_data \in Written(CypherBytes(len, seed)) \cup {<<37>>, <<61>>} :
       \E no_iv \in BOOLEAN, encoding \in EncodingOptions, no_url_encode \in BOOLEAN :
       \E parsed \in {CypherText_parse(input_data, block_size, no_iv,
                                       encoding, no_url_encode)} :
           call' = Call("CypherText::parse",
                        <<input_data, block_size, no_iv, encoding, no_url_encode>>,
                        [parsed |-> parsed,
                         encoded |-> IF parsed.ok
                                     THEN CypherText_encode(parsed.value)
                                     ELSE <<>>])
    /\ UNCHANGED attack_vars

(***************************************************************************)
(* BlockQuestion: the forged state that adjusts its block to the next      *)
(* padding when a byte is locked, and whose cursor is an Option.  A method *)
(* on &mut self is [ok, this, error]: how it returned and the state it     *)
(* left.                                                                   *)
(***************************************************************************)
ErrOverflow == "Can't increment byte without overflowing"
ErrIncrementLocked == "Can't increment byte after they're all locked"
ErrAlreadyLocked == "Already locked all bytes!"
ErrNoSuchBlock == "Can't create a BlockQuestion for a block that does not exist"
ErrNotAnswered == "Can't compute plaintext. Not all bytes of this block were locked"

Changed(this) == [ok |-> TRUE, this |-> this, error |-> NoError]

Refused(this, e) == [ok |-> FALSE, this |-> this, error |-> e]

\* Block::increment_byte: [ok, block]; no wrap-around to 0
increment_byte(block, idx) ==
    IF idx >= BlockLen(block) \/ block[idx] = U8_MAX
    THEN [ok |-> FALSE, block |-> block]
    ELSE [ok |-> TRUE, block |-> [block EXCEPT ![idx] = @ + 1]]

\* the variant that adds 1 to the bytes of the padding
adjust_by_adding_one(block, new_pad_size) ==
    LET old_pad_size == new_pad_size - 1 IN
    [i \in DOMAIN block |->
        IF i >= BlockLen(block) - old_pad_size
        THEN (block[i] + 1) % (U8_MAX + 1)
        ELSE block[i]]

\* Block::adjust_for_incremented_padding
adjust_for_incremented_padding(block, new_pad_size) ==
    LET old_pad_size == new_pad_size - 1
        xor_diff == ByteXor(old_pad_size, new_pad_size)
    IN  [i \in DOMAIN block |->
            IF i >= BlockLen(block) - old_pad_size
            THEN ByteXor(block[i], xor_diff)
            ELSE block[i]]

\* CypherText::tweakable_block
tweakable_block(text) == text.blocks[amount_blocks(text) - 1]

\* BlockQuestion::clone_part_of_cypher_text: the prefix, a block of zeros in
\* the place of the tweakable block, the block to decrypt
clone_part_of_cypher_text(text, tweakable_block_idx) ==
    IF tweakable_block_idx + 2 > amount_blocks(text)
    THEN Err(ErrNoSuchBlock)
    ELSE Ok([cypher_text |->
                 CypherText_from_iter(
                     SubSeq(text.blocks, 1, tweakable_block_idx)
                         \o <<Block_new(block_size_of(text))>>
                         \o <<text.blocks[tweakable_block_idx + 2]>>,
                     text.url_encoded, text.used_encoding),
             current_byte_idx |-> Some(block_size_of(text) - 1),
             original_tweakable_block |-> text.blocks[tweakable_block_idx + 1],
             tweakable_block_solution |-> Block_new(block_size_of(text))])

\* BlockQuestion::increment_current_byte
increment_current_byte(this) ==
    IF this.current_byte_idx = None
    THEN Refused(this, ErrIncrementLocked)
    ELSE \* bound once: the block after increment_byte
         the({IF r.ok
              THEN Changed([this EXCEPT
                       !.cypher_text.blocks[amount_blocks(this.cypher_text) - 1] =
                           r.block])
              ELSE Refused(this, ErrOverflow) :
                r \in {increment_byte(tweakable_block(this.cypher_text),
                                      Unwrap(this.current_byte_idx))}})

\* BlockQuestion::lock_byte
BlockQuestion_lock_byte(this) ==
    IF this.current_byte_idx = None
    THEN Refused(this, ErrAlreadyLocked)
    ELSE LET idx == Unwrap(this.current_byte_idx)
             n == amount_blocks(this.cypher_text)
             saved == [this EXCEPT
                         !.tweakable_block_solution[idx] =
                             tweakable_block(this.cypher_text)[idx]]
         IN  IF idx = 0
             THEN Changed([saved EXCEPT !.current_byte_idx = None])
             ELSE Changed([saved EXCEPT
                      !.current_byte_idx = Some(idx - 1),
                      !.cypher_text.blocks[n - 1] =
                          adjust_for_incremented_padding(@,
                              block_size_of(this.cypher_text) - (idx - 1))])

\* increment_current_byte, amount times or until it fails: the first half of
\* the calls, then the others
RECURSIVE increment_times(_, _)
increment_times(this, amount) ==
    IF amount = 0 THEN Changed(this)
    ELSE IF amount = 1 THEN increment_current_byte(this)
    ELSE the({IF first.ok
              THEN increment_times(first.this, amount - (amount \div 2))
              ELSE first :
                first \in {increment_times(this, amount \div 2)}})

\* the values accepted for the byte at idx: a choice for the bytes locked
\* first, one value for the others
AcceptedValues(answered, idx) ==
    IF answered < MaxChoiceBytes
    THEN {0, 1 + ((idx * 37) % U8_MAX), U8_MAX}
    ELSE {1 + ((idx * 37) % U8_MAX)}

\* the two forged states of one block, side by side: the BlockQuestion and
\* the ForgedCypherText whose block is adjusted when it is encoded
CallBothForgedStates ==
    /\ call = NoCall
    /\ \E b \in BlockSizes :
         \E cypher \in {CypherTextOf(b, <<0>>)} :
           call' = Call("both_forged_states", <<cypher>>,
                        [question |-> clone_part_of_cypher_text(cypher, 0).value,
                         forged |-> from_cypher_text(cypher, 1),
                         sent_by_question |-> <<>>,
                         sent_by_forged |-> <<>>])
    /\ UNCHANGED attack_vars

\* both states are asked about a candidate value, which is sent to the
\* oracle and accepted: the byte is locked
CallAcceptCandidate ==
    /\ call.op \in {"both_forged_states", "accept_candidate"}
    /\ IsSome(call.result.question.current_byte_idx)
    /\ \E idx \in {call.result.forged.current_byte_idx} :
       \E value \in AcceptedValues(bytes_answered(call.result.forged), idx) :
       \E question \in {increment_times(call.result.question, value).this} :
       \E forged \in {set_current_byte(call.result.forged, value)} :
           call' = Call("accept_candidate", <<call.result, value>>,
                        [question |-> BlockQuestion_lock_byte(question).this,
                         forged |-> lock_byte(forged).value,
                         sent_by_question |-> question.cypher_text.blocks,
                         sent_by_forged |->
                             <<ForgedCypherText_encode(forged)[
                                   amount_blocks(forged) - 1],
                               forged.blocks[amount_blocks(forged)]>>])
    /\ UNCHANGED attack_vars

(***************************************************************************)
(* The ForgedCypherText whose cursor is an Option<u8>, and BlockAnswer.     *)
(***************************************************************************)
ErrAllLocked == "Changing bytes failed. They're all locked already"
ErrLockedAll == "Locked all bytes already!"
ErrPlainText ==
    "Plain text computation failed. Not all bytes of the forged block were locked"
ErrNoSuchForged == "Tried to create ForgedCypherText for a block that does not exist"

\* ForgedCypherText::from_part_of_cypher_text
from_part_of_cypher_text(text, block_to_decrypt_idx) ==
    IF block_to_decrypt_idx + 1 > amount_blocks(text)
    THEN Err(ErrNoSuchForged)
    ELSE Ok([blocks |-> SubSeq(text.blocks, 1, block_to_decrypt_idx + 1),
             url_encoded |-> text.url_encoded,
             used_encoding |-> text.used_encoding,
             current_byte_idx |-> Some(block_size_of(text) - 1),
             forged_block_wip |-> Block_new(block_size_of(text)),
             forged_block_solution |-> Block_new(block_size_of(text))])

\* ForgedCypherText::is_answered
is_answered(this) == this.current_byte_idx = None

\* ForgedCypherText::set_current_byte -> Result<&mut Self>
checked_set_current_byte(this, value) ==
    IF this.current_byte_idx = None
    THEN Refused(this, ErrAllLocked)
    ELSE the({IF r.ok
              THEN Changed([this EXCEPT !.forged_block_wip = r.block])
              ELSE Refused(this, ErrOverflow) :
                r \in {set_byte(this.forged_block_wip,
                                Unwrap(this.current_byte_idx), value)}})

\* the variant whose cursor stays on the first byte
checked_lock_byte_stays_on_first(this) ==
    IF this.current_byte_idx = None
    THEN Refused(this, ErrLockedAll)
    ELSE LET idx == Unwrap(this.current_byte_idx)
             saved == [this EXCEPT
                         !.forged_block_solution[idx] = this.forged_block_wip[idx]]
         IN  IF idx = 0
             THEN Changed(saved)
             ELSE Changed([saved EXCEPT !.current_byte_idx = Some(idx - 1)])

\* ForgedCypherText::lock_byte -> Result<&mut Self>
checked_lock_byte(this) ==
    IF this.current_byte_idx = None
    THEN Refused(this, ErrLockedAll)
    ELSE LET idx == Unwrap(this.current_byte_idx)
             saved == [this EXCEPT
                         !.forged_block_solution[idx] = this.forged_block_wip[idx]]
         IN  IF idx = 0
             THEN Changed([saved EXCEPT !.current_byte_idx = None])
             ELSE Changed([saved EXCEPT !.current_byte_idx = Some(idx - 1)])

\* ForgedCypherText::plain_text_solution -> Result<String>: the bytes
checked_plain_text_solution(this) ==
    IF ~is_answered(this)
    THEN Err(ErrPlainText)
    ELSE Ok(BlockXor(BlockXor(this.forged_block_solution,
                              new_incremental_padding(block_size_of(this))),
                     this.blocks[amount_blocks(this) - 1]))

\* ForgedCypherText::encode -> Result<String>: the raw bytes, block by block
checked_encode(this) ==
    IF this.current_byte_idx = None
    THEN Err(ErrLockedAll)
    ELSE Ok(SubSeq(this.blocks, 1, amount_blocks(this) - 2)
                \o <<to_adjusted_for_padding(this.forged_block_wip,
                         block_size_of(this) - Unwrap(this.current_byte_idx))>>
                \o <<this.blocks[amount_blocks(this)]>>)

\* BlockQuestion::is_answered: no byte is left to lock
BlockQuestion_is_answered(question) == question.current_byte_idx = None

\* BlockAnswer::try_from(&mut BlockQuestion)
BlockAnswer_try_from(question) ==
    IF ~BlockQuestion_is_answered(question)
    THEN Err(ErrNotAnswered)
    ELSE Ok(BlockXor(BlockXor(question.tweakable_block_solution,
                              new_incremental_padding(
                                  block_size_of(question.cypher_text))),
                     question.original_tweakable_block))

\* how a Result-returning call ended
Returned_of(result) == [ok |-> result.ok, error |-> result.error]

OptionCursorOps ==
    {"from_part_of_cypher_text", "set_current_byte?", "lock_byte?", "encode?",
     "plain_text_solution?"}

\* what a call on the pair of states leaves: the two states, the successful
\* lock_byte calls so far, and what the two calls returned
Pair(forged, question, locks, forged_returned, question_returned) ==
    [forged |-> forged, question |-> question, locks |-> locks,
     forged_returned |-> forged_returned,
     question_returned |-> question_returned]

\* ForgedCypherText::from_part_of_cypher_text and
\* BlockQuestion::clone_part_of_cypher_text of the same block
CallFromPart ==
    /\ call = NoCall
    /\ \E b \in BlockSizes :
       \E cypher \in {CypherTextOf(b, <<0>>)} :
       \E forged \in {from_part_of_cypher_text(cypher, 1)} :
       \E question \in {clone_part_of_cypher_text(cypher, 0)} :
           call' = Call("from_part_of_cypher_text", <<cypher, 1>>,
                        Pair(forged.value, question.value, 0,
                             Returned_of(forged), Returned_of(question)))
    /\ UNCHANGED attack_vars

\* set_current_byte and increment_current_byte, on a current byte that is
\* unset or on states without a current byte
CallCheckedSetByte ==
    /\ call.op \in OptionCursorOps
    /\ call.op # "set_current_byte?"
    /\ IF is_answered(call.result.forged)
       THEN TRUE
       ELSE call.result.forged.forged_block_wip[
                Unwrap(call.result.forged.current_byte_idx)] = 0
    /\ \E before \in {call.result} :
       \E value \in {IF is_answered(before.forged) THEN 1
                     ELSE 1 + ((Unwrap(before.forged.current_byte_idx) * 37)
                                   % U8_MAX)} :
       \E forged \in {checked_set_current_byte(before.forged, value)} :
       \E question \in {increment_current_byte(before.question)} :
           call' = Call("set_current_byte?", <<before, value>>,
                        Pair(forged.this, question.this, before.locks,
                             Returned_of(forged), Returned_of(question)))
    /\ UNCHANGED attack_vars

\* lock_byte of both states
CallCheckedLockByte ==
    /\ call.op \in OptionCursorOps
    /\ call.op # "set_current_byte?" => call.result.locks < MaxChoiceBytes
                                          \/ is_answered(call.result.forged)
    /\ \E before \in {call.result} :
       \E forged \in {checked_lock_byte(before.forged)} :
       \E question \in {BlockQuestion_lock_byte(before.question)} :
           call' = Call("lock_byte?", <<before>>,
                        Pair(forged.this, question.this,
                             IF forged.ok THEN before.locks + 1 ELSE before.locks,
                             Returned_of(forged), Returned_of(question)))
    /\ UNCHANGED attack_vars

\* encode of the forged state; the question's CypherText::encode returns a
\* String
CallCheckedEncode ==
    /\ call.op \in OptionCursorOps
    /\ \E before \in {call.result} :
       \E encoded \in {checked_encode(before.forged)} :
           call' = Call("encode?", <<before>>,
                        Pair(before.forged, before.question, before.locks,
                             Returned_of(encoded),
                             Returned_of(Ok(before.question.cypher_text.blocks))))
    /\ UNCHANGED attack_vars

\* plain_text_solution of the forged state, BlockAnswer::try_from of the
\* question
CallCheckedSolution ==
    /\ call.op \in OptionCursorOps
    /\ \E before \in {call.result} :
           call' = Call("plain_text_solution?", <<before>>,
                        Pair(before.forged, before.question, before.locks,
                             Returned_of(checked_plain_text_solution(before.forged)),
                             Returned_of(BlockAnswer_try_from(before.question))))
    /\ UNCHANGED attack_vars

CallsInit ==
    /\ FirstRun(Eight, FALSE, "reliable", <<0>>, 0, FALSE, ScriptOracle,
                "missing", "ok")
    /\ call = NoCall
    /\ NoWorkers

CallsNext ==
    \/ CallVisit
    \/ CallBothForgedStates
    \/ CallAcceptCandidate
    \/ CallFromPart
    \/ CallCheckedSetByte
    \/ CallCheckedLockByte
    \/ CallCheckedEncode
    \/ CallCheckedSolution
    \/ CallParse
    \/ CallWebAskUncalibrated
    \/ CallWebAskCalibrated
    \/ CallScriptAskValidation
    \/ CallNewForged
    \/ CallSetCurrentByte
    \/ CallLockByte
    \/ CallPlainTextNew
    \/ CallSetByte
    \/ CallBitXor

Calls == CallsInit /\ [][CallsNext]_vars

\* a decryption of two blocks begins, with an empty cache or with the
\* solution of the second block cached
WorkersInit ==
    /\ FirstRun(Eight, TRUE, "reliable", <<0, 0>>, 0, FALSE, ScriptOracle,
                "missing", "ok")
    /\ call = NoCall
    /\ cache_guard = NoThread
    /\ cache_entries \in {{}, {2}}
    /\ solver = [t \in ParallelBlocks |->
                    [at |-> "start", row |-> 0, rounds_left |-> MaxRounds]]
    /\ candidate = [t \in ParallelBlocks |-> [w \in Candidates |-> Idle]]
    /\ row_guard = [k \in DOMAIN RowOrder |-> NoThread]
    /\ rows = [k \in DOMAIN RowOrder |-> [t \in ParallelBlocks |-> "new"]]
    /\ wips = [t \in ParallelBlocks |-> FALSE]
    /\ solved_sent = [t \in ParallelBlocks |-> FALSE]
    /\ dropped = FALSE

WorkersNext ==
    \/ \E t \in ParallelBlocks : LookupLock(t)
    \/ \E t \in ParallelBlocks : LookupDone(t)
    \/ \E t \in ParallelBlocks, w \in Candidates : Ask(t, w)
    \/ \E t \in ParallelBlocks, w \in Candidates : Answer(t, w)
    \/ \E t \in ParallelBlocks, w \in Candidates : TryLock(t, w)
    \/ \E t \in ParallelBlocks, w \in Candidates : WriteWip(t, w)
    \/ \E t \in ParallelBlocks, w \in Candidates : Skip(t, w)
    \/ \E t \in ParallelBlocks : RoundEnd(t)
    \/ \E t \in ParallelBlocks : InsertLock(t)
    \/ \E t \in ParallelBlocks : InsertDone(t)
    \/ \E t \in ParallelBlocks : SolvedLock(t)
    \/ \E t \in ParallelBlocks : SolvedWrite(t)

Workers == WorkersInit /\ [][WorkersNext]_vars

(***************************************************************************)
(* Properties                                                              *)
(***************************************************************************)
\* the solve_block calls that have begun
Begun ==
    {t \in DOMAIN pc : pc[t] \in {"search", "solved", "failed", "save_failed"}}

\* the intermediate of the block a call attacks, and the block before it
TargetIntermediate(t) ==
    D_K(key, fct[t].blocks[Len(fct[t].blocks)])

PrevBlock(t) == fct[t].blocks[Len(fct[t].blocks) - 1]

\* C1: with a deterministic padding oracle and no transport errors, whenever
\* solve_block has returned Solved for a state over (prev, target), its
\* plain_text_solution() is D_K(target) XOR prev.
C1_SolvedIsPlainText ==
    transport = "reliable" =>
        \A t \in Begun :
            pc[t] = "solved" =>
                plain_text_solution(Unwrap(block_solution[t])) =
                    BlockXor(TargetIntermediate(t), PrevBlock(t))

\* a block was solved byte by byte through the oracle, for each block size
C1_Witness ==
    /\ transport = "reliable"
    /\ \E t \in Begun :
          /\ pc[t] = "solved"
          /\ asked_oracle[t]
          /\ Len(locked[t]) = Sixteen

\* a feed-back run: the cypher text forged by the run before is decrypted
FeedBackRun == IsSome(chosen_plain)

\* C2: for any fixed key and any padded plain text P, feeding the cypher text
\* that encrypt_plain_text produced back into the decryptor with the same
\* oracle yields exactly the blocks of P.
C2_DecryptInvertsEncrypt ==
    (FeedBackRun /\ phase \in {"done", "failed"}) =>
        /\ phase = "done"
        /\ Unwrap(output) = Unwrap(chosen_plain)

\* the bytes locked so far are blocksize-1, blocksize-2, ... in this order
LockedInOrder(t) ==
    \A k \in 1..Len(locked[t]) : locked[t][k] = block_size_of(fct[t]) - k

\* C3: solve_block locks the byte indices of a block in strictly decreasing
\* order blocksize-1, ..., 0: index i only after every greater index, none
\* twice, and the search is at index i-1 only once index i is locked.
C3_RightToLeftLocking ==
    \A t \in Begun :
        /\ asked_oracle[t] => LockedInOrder(t)
        /\ Len(locked[t]) <= block_size_of(fct[t])
        /\ pc[t] = "search" =>
               fct[t].current_byte_idx = block_size_of(fct[t]) - 1 - Len(locked[t])
        /\ (pc[t] = "solved" /\ asked_oracle[t]) =>
               Len(locked[t]) = block_size_of(fct[t])

\* two blocks are being solved in parallel, each with bytes locked already
C3_Witness ==
    \E t, u \in Begun :
        /\ t # u
        /\ pc[t] = "search" /\ Len(locked[t]) >= 3
        /\ pc[u] = "solved" /\ asked_oracle[u]

\* the candidates the oracle calls valid for the last byte of the block of call t
LastByteCandidates(t) ==
    valid_candidates(from_slice(fct[t].blocks, block_size_of(fct[t]),
                                fct[t].url_encoded, fct[t].used_encoding))

\* C4: when two different candidates for the last byte of a block are both
\* reported valid, locking either of them leads solve_block to the same
\* solved intermediate block: the solve does not fail, and what it solves is
\* the intermediate of the target block.
C4_EitherCandidateSolves ==
    \A t \in Begun :
        (transport = "reliable" /\ Len(locked[t]) >= 1
            /\ Cardinality(LastByteCandidates(t)) = 2) =>
            /\ pc[t] # "failed"
            /\ pc[t] = "solved" =>
                   to_intermediate(Unwrap(block_solution[t]).forged_block_solution)
                       = TargetIntermediate(t)

\* C5: the same attack run twice against a deterministic oracle with the
\* cache enabled gives identical plain text, and in the second run
\* solve_block sends no oracle request for a block whose (prev, target) pair
\* the run before had cached under the same oracle identity.
C5_CacheIdempotence ==
    /\ (same_attack /\ IsSome(cache) /\ transport = "reliable"
           /\ phase = "done" /\ IsSome(prev_output)) =>
           output = prev_output
    /\ \A t \in Begun :
           (IsSome(cache) /\ as_cache_key(fct[t]) \in start_cache_keys) =>
               /\ ~asked_oracle[t]
               /\ pc[t] = "solved"

\* a second run of a decryption ended, every block answered from the cache
C5_Witness ==
    /\ run = 2
    /\ same_attack
    /\ ~encryption_mode
    /\ phase = "done"
    /\ IsSome(prev_output)
    /\ \A t \in DecryptTasks : as_cache_key(fct[t]) \in start_cache_keys

\* the last k bytes of block XOR the intermediate are all k
PaddingOf(block, intermediate, k) ==
    \A i \in (BlockLen(block) - k)..(BlockLen(block) - 1) :
        ByteXor(block[i], intermediate[i]) = k

\* the last k bytes of wip are solved bytes of the target block
SolvedBytes(wip, intermediate, k) ==
    \A i \in (BlockLen(wip) - k)..(BlockLen(wip) - 1) :
        ByteXor(wip[i], BlockLen(wip) - i) = intermediate[i]

\* the wip blocks solve_block holds: of the searches, and the solutions
WipOf(t) ==
    IF pc[t] = "solved"
    THEN Unwrap(block_solution[t]).forged_block_solution
    ELSE fct[t].forged_block_wip

\* C6 as stated: for any wip block and any k in 1..blocksize, the last k
\* bytes of to_padding_adjusted(wip, k), XORed with the intermediate of the
\* target block, are the byte k repeated k times.
C6_AnyWipAdjustsToPadding ==
    \A t \in Begun :
        \A k \in 1..block_size_of(fct[t]) :
            PaddingOf(to_adjusted_for_padding(WipOf(t), k), TargetIntermediate(t), k)

\* C6, amended: for a wip block whose last k bytes are solved bytes of the
\* target block (wip[i] XOR (blocksize - i) is the intermediate's byte i),
\* the last k bytes of to_padding_adjusted(wip, k) XORed with the
\* intermediate are k repeated k times; so in the block encode puts on the
\* wire the bytes locked before form the padding of the length now searched.
C6_SolvedBytesAdjustToPadding ==
    \A t \in Begun :
        /\ \A k \in 1..block_size_of(fct[t]) :
               SolvedBytes(WipOf(t), TargetIntermediate(t), k) =>
                   PaddingOf(to_adjusted_for_padding(WipOf(t), k),
                             TargetIntermediate(t), k)
        /\ (pc[t] = "search"
               /\ SolvedBytes(fct[t].forged_block_wip, TargetIntermediate(t),
                              Len(locked[t]))) =>
               LET sent == ForgedCypherText_encode(fct[t])
                   forged_block == sent[Len(sent) - 1]
               IN  \A i \in (fct[t].current_byte_idx + 1)..(block_size_of(fct[t]) - 1) :
                       ByteXor(forged_block[i], TargetIntermediate(t)[i])
                           = block_size_of(fct[t]) - fct[t].current_byte_idx

\* a search with three solved bytes locked, and a whole block solved
C6_Witness ==
    \E t, u \in Begun :
        /\ pc[t] = "search"
        /\ Len(locked[t]) = 3
        /\ SolvedBytes(fct[t].forged_block_wip, TargetIntermediate(t), 3)
        /\ pc[u] = "solved"
        /\ SolvedBytes(WipOf(u), TargetIntermediate(u), block_size_of(fct[u]))

\* C7: when no candidate is reported valid for the current byte, solve_block
\* repeats the search while the per-byte retry budget lasts, runs at most
\* RETRY_MAX_ATTEMPTS (3) search rounds for that byte in total, and then
\* returns the error.
C7_AtMostThreeRounds ==
    \A t \in Begun :
        /\ byte_rounds[t] <= RETRY_MAX_ATTEMPTS
        /\ pc[t] = "failed" => byte_rounds[t] = RETRY_MAX_ATTEMPTS

\* C8: for one candidate in one search round the oracle is asked at most
\* RETRY_MAX_ATTEMPTS (3) times: only a request that ended in a transport
\* error is followed by another, an answer (valid or invalid) ends the
\* asking and is the candidate's result, and the candidate is reported as
\* failed exactly when the last allowed request failed too.
C8_CandidateRetries ==
    \A w \in round_log :
        /\ Len(w.asks) >= 1
        /\ Len(w.asks) <= RETRY_MAX_ATTEMPTS
        /\ \A k \in 1..(Len(w.asks) - 1) : w.asks[k] = "error"
        /\ w.why = "failed" <=>
               (Len(w.asks) = RETRY_MAX_ATTEMPTS
                    /\ w.asks[RETRY_MAX_ATTEMPTS] = "error")
        /\ w.why # "failed" => w.why = w.asks[Len(w.asks)]

\* a round in which candidates failed after three transport errors and
\* others got their answer on a retry
C8_Witness ==
    /\ \E w \in round_log : w.why = "failed" /\ Len(w.asks) = RETRY_MAX_ATTEMPTS
    /\ \E w \in round_log : w.asks = <<"error", "error", "invalid">>
    /\ \E w \in round_log : w.asks = <<"error", "valid">>

\* C9: when one target block fails with retry exhaustion, only that block is
\* aborted: no sibling block is left unsolved because of it, and
\* decrypt_blocks still returns the solved results of the blocks that
\* succeeded.
C9_SiblingsSurvive ==
    (IsSome(decryption_results) /\ \E t \in DecryptTasks : pc[t] = "failed") =>
        /\ \A u \in DecryptTasks : pc[u] # "skipped"
        /\ \A u \in DecryptTasks :
               pc[u] = "solved" =>
                   \E k \in DOMAIN Unwrap(decryption_results).value :
                       Unwrap(decryption_results).value[k] = Unwrap(block_solution[u])

\* C10: in decryption-only mode decrypt_blocks solves exactly the target
\* blocks 1..n-1 of an n-block cypher text, never the IV, each once, and
\* returns the Solved results in ascending block-index order whatever order
\* the solves finished in.
C10_ResultsInBlockOrder ==
    ~encryption_mode =>
        /\ Len(forged_cypher_texts) = amount_blocks(cypher_text) - 1
        /\ \A k \in DecryptTasks :
               /\ amount_blocks(forged_cypher_texts[k]) = k + 1
               /\ forged_cypher_texts[k].blocks[k + 1] = cypher_text.blocks[k + 1]
        /\ \A j, k \in 1..Len(finish_order) :
               j # k => finish_order[j] # finish_order[k]
        /\ (IsSome(decryption_results) /\ Unwrap(decryption_results).ok) =>
               LET results == Unwrap(decryption_results).value
               IN  /\ Len(results) = amount_blocks(cypher_text) - 1
                   /\ \A k \in 1..Len(results) :
                          /\ block_to_decrypt(results[k]) = cypher_text.blocks[k + 1]
                          /\ original_forged_block(results[k]) = cypher_text.blocks[k]

\* the second block was solved before the first, and the results are returned
C10_Witness ==
    /\ ~encryption_mode
    /\ IsSome(decryption_results)
    /\ Unwrap(decryption_results).ok
    /\ finish_order = <<2, 1>>
    /\ asked_oracle[1] /\ asked_oracle[2]

\* decrypt_blocks returned Ok in an encryption run
SeedSolved ==
    /\ encryption_mode
    /\ IsSome(decryption_results)
    /\ Unwrap(decryption_results).ok

\* the seed handed to Encryptor::new is the solved state of the last block
SeedIsLastBlock ==
    SeedSolved =>
        /\ initial_block_solution = Unwrap(block_solution[1])
        /\ initial_block_solution.blocks = cypher_text.blocks
        /\ block_to_decrypt(initial_block_solution) =
               cypher_text.blocks[amount_blocks(cypher_text)]
        /\ encrypted_blocks_backwards[1] =
               cypher_text.blocks[amount_blocks(cypher_text)]

\* C11 as stated: in encryption mode the decryptor creates a forged state for
\* every block index 1..n-1 of the original cypher text, and the seed handed
\* to the encryptor is the solved state of the last cypher text block.
C11_ForgedStatePerBlock ==
    /\ encryption_mode =>
           /\ Len(forged_cypher_texts) = amount_blocks(cypher_text) - 1
           /\ \A k \in DecryptTasks :
                  amount_blocks(forged_cypher_texts[k]) = k + 1
    /\ SeedIsLastBlock

\* C11, amended: in encryption mode the decryptor creates exactly one forged
\* state, the one of the last block index n-1 over all n blocks of the
\* original cypher text, and the seed handed to the encryptor is the solved
\* state of that block.
C11_ForgedStateOfLastBlock ==
    /\ encryption_mode =>
           /\ Len(forged_cypher_texts) = 1
           /\ forged_cypher_texts[1] =
                  from_cypher_text(cypher_text, amount_blocks(cypher_text) - 1)
    /\ SeedIsLastBlock

\* an encryption over a cypher text of IV and two blocks has its seed
C11_Witness ==
    /\ SeedSolved
    /\ amount_blocks(cypher_text) = 3
    /\ asked_oracle[1]
    /\ phase = "encrypt"
    /\ enc_i >= 1

\* the forged cypher text so far, in forward order
ForgedBlocks == Reverse(encrypted_blocks_backwards)

\* C12: for a plain text of P blocks encrypt_plain_text returns P+1 blocks,
\* the last one the seed cypher text block, with C[i-1] =
\* to_intermediate(solution for C[i]) XOR P_i; the blocks are made one after
\* another from last to first, the first step reuses the seed's solution
\* without an oracle request, and every later solve_block call is on the two
\* blocks [zero block, C[i]].
C12_EncryptBackwards ==
    (SeedSolved /\ phase \in {"encrypt", "done"}) =>
        LET P == Unwrap(plain_text)
            made == Len(enc_steps)
        IN  /\ Len(encrypted_blocks_backwards) = made + 1
            /\ enc_i = made
            /\ made <= Len(P)
            /\ encrypted_blocks_backwards[1] =
                   cypher_text.blocks[amount_blocks(cypher_text)]
            /\ \A k \in 1..made :
                   /\ enc_steps[k].plain_text_block = P[Len(P) + 1 - k]
                   /\ encrypted_blocks_backwards[k + 1] =
                          BlockXor(to_intermediate(enc_steps[k].solution),
                                   P[Len(P) + 1 - k])
                   /\ transport = "reliable" =>
                          to_intermediate(enc_steps[k].solution) =
                              D_K(key, encrypted_blocks_backwards[k])
                   /\ k = 1 =>
                          /\ enc_steps[k].solved_on = <<>>
                          /\ enc_steps[k].solution =
                                 Unwrap(block_solution[1]).forged_block_solution
                   /\ k > 1 =>
                          enc_steps[k].solved_on =
                              <<Block_new(block_size_of(cypher_text)),
                                encrypted_blocks_backwards[k]>>
            /\ made = 0 => (pc[ENC] = "idle" /\ ~asked_oracle[ENC])
            /\ pc[ENC] # "idle" =>
                   fct[ENC].blocks =
                       <<Block_new(block_size_of(cypher_text)),
                         encrypted_blocks_backwards[made + 1]>>
            /\ phase = "done" =>
                   /\ made = Len(P)
                   /\ Unwrap(output).blocks = ForgedBlocks
                   /\ Len(Unwrap(output).blocks) = Len(P) + 1

\* a plain text of two blocks was encrypted, the second step through the oracle
C12_Witness ==
    /\ SeedSolved
    /\ phase = "done"
    /\ Len(Unwrap(plain_text)) = 2
    /\ asked_oracle[ENC]
    /\ Unwrap(plain_text)[1] # Unwrap(plain_text)[2]

\* C13: with the cache enabled, after encrypt_plain_text returns the cache
\* holds for every adjacent pair (C[i-1], C[i]) of the forged cypher text an
\* entry whose value is the solved forged block of C[i]; a later decryption
\* of the forged cypher text under the same oracle identity hits the cache
\* for every block and recovers the chosen plain text.
C13_ForgedPairsCached ==
    /\ (SeedSolved /\ phase = "done" /\ IsSome(cache)) =>
           \A i \in 1..(Len(ForgedBlocks) - 1) :
               LET hit == Cache_get(Unwrap(cache),
                              <<ForgedBlocks[i], ForgedBlocks[i + 1]>>)
               IN  /\ IsSome(hit)
                   /\ to_intermediate(Unwrap(hit)) = D_K(key, ForgedBlocks[i + 1])
                   /\ Unwrap(hit) = enc_steps[Len(ForgedBlocks) - i].solution
    /\ (FeedBackRun /\ IsSome(cache)) =>
           /\ \A t \in Begun : pc[t] = "solved" /\ ~asked_oracle[t]
           /\ phase # "failed"
           /\ phase = "done" => Unwrap(output) = Unwrap(chosen_plain)

\* the forged cypher text of a two-block plain text was decrypted from the cache
C13_Witness ==
    /\ FeedBackRun
    /\ IsSome(cache)
    /\ phase = "done"
    /\ Len(Unwrap(chosen_plain)) = 2
    /\ Unwrap(output) = Unwrap(chosen_plain)

\* the entries stored under the current oracle identity
CurrentEntries ==
    IF IsSome(cache) /\ Unwrap(cache).config \in DOMAIN Unwrap(cache).data
    THEN Unwrap(cache).data[Unwrap(cache).config]
    ELSE EmptyMap

\* C14: every value stored in the cache is a fully solved forged block for
\* its (prev, target) key under the current oracle identity; solve_block
\* inserts only after all bytes of the block were locked, never a partially
\* solved block or one of a failed search.
C14_CachedBlocksAreSolved ==
    /\ \A pair \in DOMAIN CurrentEntries :
           to_intermediate(CurrentEntries[pair]) = D_K(key, pair[2])
    /\ \A t \in Begun :
           /\ pc[t] \in {"search", "failed"} =>
                  as_cache_key(fct[t]) \notin DOMAIN CurrentEntries
           /\ (pc[t] = "solved" /\ IsSome(cache)) =>
                  /\ as_cache_key(fct[t]) \in DOMAIN CurrentEntries
                  /\ CurrentEntries[as_cache_key(fct[t])] =
                         Unwrap(block_solution[t]).forged_block_solution
                  /\ asked_oracle[t] =>
                         Len(locked[t]) = block_size_of(fct[t])

\* a block was solved and cached while another search, with bytes locked,
\* has stored nothing
C14_Witness ==
    /\ IsSome(cache)
    /\ \E t, u \in Begun :
           /\ pc[t] = "solved" /\ asked_oracle[t]
           /\ as_cache_key(fct[t]) \in DOMAIN CurrentEntries
           /\ pc[u] = "search" /\ Len(locked[u]) >= 2

\* the configs other than the current one, and what the file holds
OtherConfigs(c) == DOMAIN c.data \ {c.config}

FileData == from_read_ref(cache_file.bytes)

\* a step keeps, in memory and in the file, what is stored under other configs
OtherConfigsKept ==
    /\ (IsSome(cache) /\ IsSome(cache')) =>
           \A config \in OtherConfigs(Unwrap(cache)) :
               /\ config \in DOMAIN Unwrap(cache').data
               /\ Unwrap(cache').data[config] = Unwrap(cache).data[config]
    /\ (cache_file' # cache_file /\ last_insert'.step = "ok") =>
           \E old \in {FileData}, new \in {FileData'} :
               old.ok =>
                   /\ new.ok
                   /\ \A config \in DOMAIN old.value \ {Unwrap(cache').config} :
                          /\ config \in DOMAIN new.value
                          /\ new.value[config] = old.value[config]

\* a lookup answers from the entries of the current config only
HitsOfCurrentConfig ==
    /\ IsSome(cache) =>
           start_cache_keys \subseteq DOMAIN CurrentEntries
    /\ \A t \in Begun :
           (pc[t] = "solved" /\ ~asked_oracle[t]) =>
               /\ IsSome(cache)
               /\ as_cache_key(fct[t]) \in start_cache_keys
               /\ Unwrap(block_solution[t]).forged_block_solution =
                      CurrentEntries[as_cache_key(fct[t])]

\* C15: Cache.get returns an entry only if it was inserted under a
\* CacheConfig structurally equal to the current one (same oracle location,
\* same optional calibration signature); an entry stored under another
\* location or another signature is never returned, and an insert under one
\* config leaves the entries of every other config unchanged.
C15_CacheScopedByConfig ==
    [](HitsOfCurrentConfig) /\ [][OtherConfigsKept]_vars

\* a web oracle's run solved a block through the oracle and saved it, with the
\* same pair stored under the same URL and another signature, and under the
\* same signature and another URL
C15_Witness ==
    /\ IsSome(cache)
    /\ oracle.location[1] = "Web"
    /\ last_insert.step = "ok"
    /\ \E t \in Begun :
           /\ pc[t] = "solved" /\ asked_oracle[t]
           /\ \E a, b \in OtherConfigs(Unwrap(cache)) :
                  /\ a.oracle_location = Unwrap(cache).config.oracle_location
                  /\ b.calibration_response = Unwrap(cache).config.calibration_response
                  /\ as_cache_key(fct[t]) \in DOMAIN Unwrap(cache).data[a]
                  /\ as_cache_key(fct[t]) \in DOMAIN Unwrap(cache).data[b]
                  /\ \E read \in {FileData} :
                         /\ read.ok
                         /\ a \in DOMAIN read.value /\ b \in DOMAIN read.value

\* C16: after every successful Cache.insert the cache file holds exactly the
\* serialization of the whole in-memory two-level map; an insert that fails
\* leaves the file empty, never with partial or corrupt bytes.
C16_FileIsSerializedMap ==
    /\ last_insert.step = "ok" =>
           /\ IsSome(cache)
           /\ cache_file.bytes = to_vec(Unwrap(cache).data)
           /\ \E read \in {FileData} :
                  read.ok /\ read.value = Unwrap(cache).data
    /\ last_insert.step \notin {"none", "ok"} =>
           cache_file.bytes = <<>>

\* logic_preparation, with caching, has reached Cache::load_from_file
LoadsCache ==
    /\ phase = "prepare"
    /\ phase' # "prepare"
    /\ ~no_cache
    /\ error' # ErrCalibration

\* C17: Cache::load_from_file yields an empty map when the cache file is
\* missing or empty, and returns a hard error, without falling back to an
\* empty map and without modifying the file, when the content cannot be
\* de-serialized.
C17_LoadFromFile ==
    [][LoadsCache =>
          /\ cache_file.bytes = <<>> =>
                 /\ phase' = "decrypt"
                 /\ IsSome(cache')
                 /\ DOMAIN Unwrap(cache').data = {Unwrap(cache').config}
                 /\ cached_keys(cache') = {}
                 /\ cache_file' = [exists |-> TRUE, bytes |-> <<>>]
          /\ (cache_file.bytes # <<>> /\ ~FileData.ok) =>
                 /\ phase' = "failed"
                 /\ error' = ErrCorrupted
                 /\ cache' = None
                 /\ cache_file'.bytes = cache_file.bytes
          /\ (cache_file.bytes # <<>> /\ FileData.ok) =>
                 /\ phase' = "decrypt"
                 /\ IsSome(cache')
                 /\ \A config \in DOMAIN FileData.value :
                        /\ config \in DOMAIN Unwrap(cache').data
                        /\ Unwrap(cache').data[config] = FileData.value[config]
      ]_vars

\* a later run found the bytes a failed write had left, and ended with the
\* error before any block was attacked
C17_Witness ==
    /\ run = 2
    /\ error = ErrCorrupted
    /\ phase = "failed"
    /\ cache_file.bytes # <<>>
    /\ Begun = {}

C19_CalibrationIndeterminate ==
    (IsSome(calibration) /\ Cardinality(DOMAIN Unwrap(calibration)) < 2) =>
        /\ padding_error_response = None
        /\ phase = "failed"
        /\ error = ErrCalibration
        /\ cache = None
        /\ Begun = {}
        /\ \A t \in DOMAIN pc : pc[t] = "idle"
        /\ output = None

\* a server that tells a padding error in the body only, asked without
\* --consider-body
C19_Witness ==
    /\ IsSome(calibration)
    /\ Cardinality(DOMAIN Unwrap(calibration)) = 1
    /\ oracle.server = "body"
    /\ ~oracle.consider_body
    /\ error = ErrCalibration

C27_SetByteOverwrites ==
    call.op = "set_byte" =>
        LET block == call.args[1]
            index == call.args[2]
            value == call.args[3]
            set == call.result
        IN  IF index < BlockLen(block)
            THEN /\ set.ok
                 /\ set.block[index] = value
                 /\ \A i \in DOMAIN block \ {index} : set.block[i] = block[i]
            ELSE /\ ~set.ok
                 /\ set.block = block

\* C29: for all blocks a and b of equal size, (a XOR b) XOR b = a; the XOR
\* of two blocks of different sizes yields an error and no block.
C29_XorInvolution ==
    call.op = "bitxor" =>
        LET a == call.args[1]
            b == call.args[2]
        IN  IF BlockLen(a) = BlockLen(b)
            THEN /\ call.result.first # XorErr
                 /\ call.result.again = a
            ELSE call.result.first = XorErr

\* two different blocks of equal size, none of them zero, were XORed
C29_Witness ==
    /\ call.op = "bitxor"
    /\ BlockLen(call.args[1]) = BlockLen(call.args[2])
    /\ call.args[1] # call.args[2]
    /\ call.result.first # call.args[1]
    /\ call.result.first # call.args[2]
    /\ call.result.again = call.args[1]

\* C26: for every input string and block size, PlainText::new appends
\* blocksize - (len mod blocksize) bytes each equal to that padding length,
\* so the padding length is in [1, blocksize] (a full block when len is a
\* multiple of blocksize) and the result is a positive whole number of blocks.
C26_Pkcs7Padding ==
    call.op = "PlainText::new" =>
        LET input_data == call.args[1]
            block_size == call.args[2]
            blocks == call.result
            padding == block_size - (Len(input_data) % block_size)
            bytes == Flatten(blocks)
        IN  /\ padding \in 1..block_size
            /\ (Len(input_data) % block_size = 0) => padding = block_size
            /\ Len(blocks) >= 1
            /\ \A n \in 1..Len(blocks) : BlockLen(blocks[n]) = block_size
            /\ Len(bytes) = Len(input_data) + padding
            /\ SubSeq(bytes, 1, Len(input_data)) = input_data
            /\ \A n \in (Len(input_data) + 1)..Len(bytes) : bytes[n] = padding

\* an input of exactly two 8-byte blocks got a third block of padding
C26_Witness ==
    /\ call.op = "PlainText::new"
    /\ call.args[2] = Eight
    /\ Len(call.args[1]) = 2 * Eight
    /\ Len(call.result) = 3
    /\ call.result[3] = [i \in 0..(Eight - 1) |-> Eight]

\* C30: a forged block state starts with cursor = blocksize - 1 and all-zero
\* wip and solved blocks; in every reachable state the cursor is in
\* [0, blocksize); lock_byte changes only solved[cursor] (set to wip[cursor])
\* and the cursor, leaving wip, the original blocks and every other solved
\* byte unchanged, and it returns Solved exactly when the cursor was 0 and
\* BytesLeft with the cursor decremented by one otherwise.
C30_ForgedStateAndLockByte ==
    /\ call.op \in {"from_cypher_text", "from_slice"} =>
           LET block_size == BlockLen(call.result.blocks[1])
           IN  /\ call.result.current_byte_idx = block_size - 1
               /\ call.result.forged_block_wip = [i \in 0..(block_size - 1) |-> 0]
               /\ call.result.forged_block_solution =
                      [i \in 0..(block_size - 1) |-> 0]
    /\ MadeForged =>
           Forged.current_byte_idx \in 0..(BlockLen(Forged.forged_block_wip) - 1)
    /\ call.op = "lock_byte" =>
           LET before == call.args[1]
               idx == before.current_byte_idx
               after == call.result.value
           IN  /\ call.result.kind = (IF idx = 0 THEN "Solved" ELSE "BytesLeft")
               /\ after.forged_block_solution[idx] = before.forged_block_wip[idx]
               /\ \A i \in DOMAIN before.forged_block_solution \ {idx} :
                      after.forged_block_solution[i] = before.forged_block_solution[i]
               /\ after.blocks = before.blocks
               /\ after.url_encoded = before.url_encoded
               /\ after.used_encoding = before.used_encoding
               /\ idx # 0 =>
                      /\ after.current_byte_idx = idx - 1
                      /\ after.forged_block_wip = before.forged_block_wip

\* the last byte of a 16-byte block was locked after bytes had been locked
\* with and without a value set
C30_Witness ==
    /\ call.op = "lock_byte"
    /\ call.result.kind = "Solved"
    /\ BlockLen(call.result.value.forged_block_solution) = Sixteen
    /\ call.result.value.forged_block_solution[0] # 0
    /\ call.result.value.forged_block_solution[Sixteen - 1] = 0
    /\ call.result.value.forged_block_solution[Sixteen - 2] # 0

\* C24: ScriptOracle::ask_validation returns Ok(true) exactly when the script
\* exits with code 0, Ok(false) for every non-zero exit (an answer, so it is
\* not retried), and an error only when the process could not be launched.
C24_ScriptExitIsAnswer ==
    call.op = "ScriptOracle::ask_validation" =>
        LET path_is_utf8 == call.args[1]
            status == call.args[2]
            launched == path_is_utf8 /\ status.started
            answer == call.result.answer
            worker == call.result.worker
        IN  /\ answer.ok = launched
            /\ launched => (answer.value = (status.code = Some(0)))
            /\ (launched /\ status.code # Some(0)) =>
                   /\ worker.ok
                   /\ worker.value = FALSE
                   /\ Len(worker.asks) = 1
            /\ ~launched =>
                   /\ ~worker.ok
                   /\ Len(worker.asks) = RETRY_MAX_ATTEMPTS

\* the script ended with exit code 127, and the worker asked once
C24_Witness ==
    /\ call.op = "ScriptOracle::ask_validation"
    /\ call.args[2].code = Some(127)
    /\ call.result.answer.ok
    /\ call.result.answer.value = FALSE
    /\ Len(call.result.worker.asks) = 1

\* C21: WebOracle::ask_validation returns the not-calibrated error, and
\* never a boolean, whenever the padding-error response has not been set
\* before the call.
C21_NotCalibratedError ==
    (call.op = "WebOracle::ask_validation" /\ call.args[3] = None) =>
        /\ ~call.result.ok
        /\ call.result.error = ErrNotCalibrated

\* the responses differ in a field that the oracle compares
Differ(response, padding_error, consider_body) ==
    \/ response.status # padding_error.status
    \/ response.location # padding_error.location
    \/ /\ consider_body
       /\ \/ response.body # padding_error.body
          \/ response.content_length # padding_error.content_length

\* C23: a calibrated HTTP oracle answers valid exactly when the response
\* differs from the padding-error signature in status, in the Location
\* header, or, only when consider-body is on, in body text or content
\* length; with consider-body off, two responses that differ only in body or
\* content length are classified the same.
C23_ValidIffDifferent ==
    call.op = "WebOracle::ask_validation twice" =>
        LET first == call.args[1]
            second == call.args[2]
            padding_error == call.args[3]
            consider_body == call.args[4]
        IN  /\ call.result[1].ok /\ call.result[2].ok
            /\ call.result[1].value = Differ(first, padding_error, consider_body)
            /\ call.result[2].value = Differ(second, padding_error, consider_body)
            /\ ~consider_body => call.result[1].value = call.result[2].value

\* without --consider-body, a response with the status and Location of the
\* padding error and another body, and one with another length, are both
\* answered invalid
C23_Witness ==
    /\ call.op = "WebOracle::ask_validation twice"
    /\ ~call.args[4]
    /\ call.args[1].status = call.args[3].status
    /\ call.args[1].location = call.args[3].location
    /\ call.args[1].body # call.args[3].body
    /\ call.args[2].body = call.args[3].body
    /\ call.args[2].content_length # call.args[3].content_length
    /\ call.result[1].ok /\ ~call.result[1].value
    /\ call.result[2].ok /\ ~call.result[2].value

\* the sites of a request that contain the keyword
KeywordInUrl(url, config) == contains(url, config.keyword)

KeywordInPostData(config) ==
    IsSome(config.post_data) /\ contains(Unwrap(config.post_data), config.keyword)

KeywordInName(config, idx) == contains(config.headers[idx + 1][1], config.keyword)

KeywordInValue(config, idx) == contains(config.headers[idx + 1][2], config.keyword)

HeadersWithKeyword(config) ==
    {idx \in 0..(Len(config.headers) - 1) :
        KeywordInName(config, idx) \/ KeywordInValue(config, idx)}

\* the locations recorded are the sites with the keyword
RecordedExactly(url, config, keyword_locations) ==
    LET recorded(kind) == \E n \in 1..Len(keyword_locations) :
                              keyword_locations[n].kind = kind
    IN  /\ recorded("Url") = KeywordInUrl(url, config)
        /\ recorded("PostData") = KeywordInPostData(config)
        /\ recorded("Headers") = (HeadersWithKeyword(config) # {})
        /\ \A n \in 1..Len(keyword_locations) :
               keyword_locations[n].kind = "Headers" =>
                   /\ DOMAIN keyword_locations[n].headers = HeadersWithKeyword(config)
                   /\ \A idx \in HeadersWithKeyword(config) :
                          /\ keyword_locations[n].headers[idx].keyword_in_name
                                 = KeywordInName(config, idx)
                          /\ keyword_locations[n].headers[idx].keyword_in_value
                                 = KeywordInValue(config, idx)

\* C22: construction of the HTTP oracle (and of the calibration oracle)
\* fails, before any request is sent, exactly when the keyword occurs in none
\* of the URL, the body template, a header name or a header value; when it
\* succeeds the recorded keyword locations are exactly the sites that
\* contain the keyword.
C22_KeywordLocations ==
    call.op \in {"WebOracle::visit", "CalibrationWebOracle::visit"} =>
        LET url == call.args[1]
            config == call.args[2]
        IN  /\ call.result.ok =
                   \/ KeywordInUrl(url, config)
                   \/ KeywordInPostData(config)
                   \/ HeadersWithKeyword(config) # {}
            /\ ~call.result.ok => call.result.error = ErrKeyword
            /\ call.result.ok =>
                   RecordedExactly(url, config, call.result.value.keyword_locations)

\* the number of blocks an input yields, the zero IV block counted, when it
\* decodes to a whole number of blocks; -1 when it does not
BlocksYielded(input_data, block_size, no_iv, encoding, no_url_encode) ==
    LET url_decoded ==
            IF no_url_encode \/ ~urlencoding_decode(input_data).ok
            THEN input_data
            ELSE urlencoding_decode(input_data).value
        decoded == decode(url_decoded, encoding)
    IN  IF ~decoded.ok \/ Len(decoded.value.data) % block_size # 0 THEN -1
        ELSE (Len(decoded.value.data) \div block_size) + (IF no_iv THEN 1 ELSE 0)

\* C25: CypherText::parse returns a user error for every input that yields
\* fewer than 2 blocks (0 or 1) after the optional zero IV block is
\* prepended; on success the result has at least 2 blocks of equal size and
\* a total length that is a multiple of the block size.
C25_ParseNeedsTwoBlocks ==
    call.op = "CypherText::parse" =>
        \E yielded \in {BlocksYielded(call.args[1], call.args[2], call.args[3],
                                      call.args[4], call.args[5])} :
            /\ yielded \in {0, 1} =>
                   /\ ~call.result.parsed.ok
                   /\ call.result.parsed.error = ErrOneBlock
            /\ call.result.parsed.ok =>
                   /\ Len(call.result.parsed.value.blocks) >= 2
                   /\ \A n \in 1..Len(call.result.parsed.value.blocks) :
                          BlockLen(call.result.parsed.value.blocks[n]) = call.args[2]
                   /\ Len(Flatten(call.result.parsed.value.blocks)) % call.args[2] = 0

Canonical(bytes) ==
    LET plain == {hex_encode(bytes),
                  base64_encode_config(bytes, STANDARD),
                  base64_encode_config(bytes, URL_SAFE)}
    IN  plain \cup {urlencoding_encode(text) : text \in plain}

AnyTask == 0..(MaxTargets + MaxPlainBlocks)

Returned == {"solved", "failed", "save_failed"}

\* a byte was locked in this step
Locks(t) == t \in DOMAIN locked /\ t \in DOMAIN locked' /\ Len(locked'[t]) = Len(locked[t]) + 1

\* C31: provided every oracle request returns, solve_block terminates for
\* any oracle behaviour: it returns Solved or an error after finitely many
\* search rounds (at most RETRY_MAX_ATTEMPTS + 1 for a byte, for at most
\* block size bytes), and the byte-level retry counter is back at its
\* initial value each time a byte is locked.
C31_SolveBlockTerminates ==
    /\ \A t \in AnyTask :
           (t \in DOMAIN pc /\ pc[t] = "search")
               ~> (t \in DOMAIN pc /\ pc[t] \in Returned)
    /\ [](\A t \in DOMAIN pc :
              /\ byte_rounds[t] <= RETRY_MAX_ATTEMPTS + 1
              /\ attempts[t] \in 1..(RETRY_MAX_ATTEMPTS + 1)
              /\ (pc[t] = "search" => Len(locked[t]) < block_size_of(fct[t])))
    /\ [][\A t \in AnyTask : Locks(t) => attempts'[t] = 1]_vars

\* a call that locked bytes and then spent the whole budget of a byte on the
\* next one, every request failing
C31_Witness ==
    \E t \in DOMAIN pc :
        /\ pc[t] = "failed"
        /\ Len(locked[t]) >= 1
        /\ byte_rounds[t] = RETRY_MAX_ATTEMPTS + 1
        /\ \A r \in round_log : r.why = "failed"

\* a search round of the call t was this step
RoundOf(t) ==
    /\ t \in DOMAIN pc
    /\ pc[t] = "search"
    /\ Locks(t) \/ byte_rounds'[t] = byte_rounds[t] + 1

\* C32: within one byte search a candidate whose requests all fail with
\* transport errors is treated like an invalid candidate: the round goes on,
\* the byte is locked if any candidate is reported valid, and if none is the
\* round counts as one failed byte-level attempt.
C32_FailedCandidateIsInvalid ==
    [][\A t \in AnyTask :
          RoundOf(t) =>
              IF \E r \in round_log' : r.why = "valid"
              THEN /\ Locks(t)
                   /\ pc'[t] # "failed"
              ELSE /\ ~Locks(t)
                   /\ byte_rounds'[t] = byte_rounds[t] + 1
                   /\ IF attempts[t] > RETRY_MAX_ATTEMPTS
                      THEN pc'[t] = "failed" /\ attempts'[t] = attempts[t]
                      ELSE pc'[t] = "search" /\ attempts'[t] = attempts[t] + 1]_vars

\* a round in which workers gave up on their candidates after
\* RETRY_MAX_ATTEMPTS transport errors and the byte was locked all the same
C32_Witness ==
    /\ Len(forged_cypher_texts) = 1
    /\ Len(locked[1]) >= 1
    /\ byte_rounds[1] = 0
    /\ \E r \in round_log : r.why = "failed" /\ Len(r.asks) = RETRY_MAX_ATTEMPTS
    /\ \E r \in round_log : r.why = "valid"
    /\ \E r \in round_log : r.why = "invalid"

\* the last byte of the block of call t was locked in this step
LocksLastByte(t) ==
    Locks(t) /\ Len(locked'[t]) = block_size_of(fct[t])

\* C33: if Cache::insert fails after the last byte of a block has been
\* locked, solve_block returns that cache error and no Solved result,
\* although the block was fully solved; with the cache disabled (None)
\* solve_block neither reads nor writes a cache and returns the Solved
\* result.
C33_InsertFailureLosesBlock ==
    /\ [][\A t \in AnyTask :
             LocksLastByte(t) =>
                 IF cache = None
                 THEN /\ UNCHANGED cache_vars
                      /\ pc'[t] = "solved"
                      /\ IsSome(block_solution'[t])
                 ELSE IF last_insert'.step # "ok"
                 THEN /\ pc'[t] = "save_failed"
                      /\ block_solution'[t] = None
                 ELSE /\ pc'[t] = "solved"
                      /\ IsSome(block_solution'[t])]_vars
    /\ [](\A t \in DOMAIN pc :
             /\ pc[t] = "save_failed" =>
                    /\ Len(locked[t]) = block_size_of(fct[t])
                    /\ block_solution[t] = None
             /\ (pc[t] = "solved" /\ no_cache) =>
                    /\ asked_oracle[t]
                    /\ Len(locked[t]) = block_size_of(fct[t])
                    /\ cache = None)
    /\ []((phase = "failed" /\ error = ErrCacheSave /\ ~encryption_mode) =>
             \E t \in DecryptTasks : pc[t] = "save_failed")

C33_Witness ==
    \E t \in DOMAIN pc :
        /\ pc[t] = "save_failed"
        /\ Len(locked[t]) = block_size_of(fct[t])
        /\ block_solution[t] = None
        /\ last_insert.step # "ok"
        /\ phase = "failed"
        /\ error = ErrCacheSave

\* the amount of the IndicateWork event logic_main sends first
IndicateWork ==
    IF encryption_mode
    THEN (Len(Unwrap(plain_text)) + 1) * BlockLen(Unwrap(plain_text)[1])
    ELSE (amount_blocks(cypher_text) - 1) * block_size_of(cypher_text)

\* C35: in a successful run the sum of all ProgressUpdate amounts equals the
\* IndicateWork amount announced at the start, (n-1)*blocksize for the
\* decryption of an n-block cypher text and (P+1)*blocksize for the
\* encryption of a P-block plain text, whether blocks are solved byte by
\* byte, served from the cache or retried; at no point of any run does the
\* sum exceed that amount.
C35_ProgressSumsToWork ==
    /\ progress <= IndicateWork
    /\ phase = "done" => progress = IndicateWork

\* the encryption of two blocks is done a second time, its blocks served
\* from the cache
C35_Witness ==
    /\ phase = "done"
    /\ encryption_mode
    /\ same_attack
    /\ Len(Unwrap(plain_text)) = 2
    /\ progress = 3 * block_size_of(cypher_text)
    /\ \A t \in DOMAIN pc : ~asked_oracle[t]
    /\ \E n \in 1..Len(enc_steps) : enc_steps[n].solved_on # <<>>

\* C36: in the attack on an HTTP oracle the calibration has finished and its
\* signature is set on the oracle and folded into the cache key before the
\* first decryption request, so ask_validation never takes its
\* not-calibrated arm; when the calibration fails, no attack request is sent
\* and the cache file is not opened.
C36_CalibratedBeforeAttack ==
    /\ [](oracle.location[1] = "Web" =>
             /\ (phase \in {"decrypt", "encrypt", "done"}
                  \/ \E t \in DOMAIN pc : pc[t] # "idle" \/ asked_oracle[t]) =>
                    /\ IsSome(padding_error_response)
                    /\ IsSome(calibration)
                    /\ \A sent \in {Sent("answered", r) : r \in SampleResponses} :
                           WebOracle_ask_validation(sent, oracle.consider_body,
                                                    padding_error_response).ok
             /\ IsSome(cache) =>
                    /\ IsSome(padding_error_response)
                    /\ Unwrap(cache).config =
                           CacheConfig_new(oracle.location, padding_error_response)
             /\ error # ErrNotCalibrated)
    /\ [][(oracle.location[1] = "Web" /\ phase = "prepare"
            /\ padding_error_response' = None) =>
               /\ phase' = "failed"
               /\ error' = ErrCalibration
               /\ UNCHANGED <<cache, cache_file, asked_oracle, pc>>]_vars
    /\ []((phase = "failed" /\ error = ErrCalibration) =>
             /\ cache = None
             /\ \A t \in DOMAIN pc : pc[t] = "idle" /\ ~asked_oracle[t])

\* the attack on a web oracle has asked the oracle and saved a block under
\* the key that holds the signature
C36_Witness ==
    /\ oracle.location[1] = "Web"
    /\ phase = "done"
    /\ \E t \in DOMAIN pc : asked_oracle[t]
    /\ IsSome(cache)
    /\ IsSome(Unwrap(cache).config.calibration_response)
    /\ Unwrap(cache).config \in DOMAIN Unwrap(cache).data

\* the requests of one search round carry what the round's cursor asks for
RequestsOfRound(t) ==
    \E idx \in {fct[t].current_byte_idx} :
        /\ fct[t].forged_block_wip[idx] = 0
        /\ \A r \in round_log' :
               /\ r.transmitted[idx] = r.byte_value
               /\ \A i \in 0..(idx - 1) : r.transmitted[i] = 0
        /\ \A v \in Byte : Cardinality({r \in round_log' : r.byte_value = v}) = 1

C38_EagerAndLateAdjustmentAgree ==
    call.op = "accept_candidate" =>
        /\ call.result.sent_by_question = call.result.sent_by_forged
        /\ call.result.question.tweakable_block_solution
               = call.result.forged.forged_block_solution
        /\ \E value \in {call.args[2]}, idx \in {call.args[1].forged.current_byte_idx} :
               /\ call.result.sent_by_forged[1][idx] = value
               /\ call.result.forged.forged_block_solution[idx] = value

\* the last byte of a 16-byte block is locked in both states, after bytes
\* whose accepted values were 0, 255 and values between
C38_Witness ==
    /\ call.op = "accept_candidate"
    /\ call.result.question.current_byte_idx = None
    /\ BlockLen(call.result.forged.forged_block_solution) = Sixteen
    /\ {0, U8_MAX} \subseteq
           {call.result.forged.forged_block_solution[i] : i \in 0..(Sixteen - 1)}
    /\ call.result.sent_by_forged[1] # call.result.forged.forged_block_solution

\* the blocks a forged state and a question work on
Working(pair) ==
    <<pair.forged.forged_block_wip, pair.forged.forged_block_solution,
      tweakable_block(pair.question.cypher_text),
      pair.question.tweakable_block_solution>>

\* C40: in the forged state whose cursor is an Option, the cursor is None
\* after block size successful lock_byte calls; every further lock_byte,
\* set_current_byte or encode returns an error and leaves the wip and
\* solution blocks unchanged; plain_text_solution and BlockAnswer::try_from
\* return an error until all bytes are locked.
C40_LockedStateRefuses ==
    (call.op \in OptionCursorOps /\ call.op # "from_part_of_cypher_text") =>
        \E before \in {call.args[1]}, after \in {call.result} :
        \E size \in {block_size_of(after.forged)} :
            /\ after.locks \in 0..size
            /\ is_answered(after.forged) <=> after.locks = size
            /\ BlockQuestion_is_answered(after.question) <=> after.locks = size
            /\ (before.locks = size
                    /\ call.op \in {"lock_byte?", "set_current_byte?", "encode?"}) =>
                   /\ ~after.forged_returned.ok
                   /\ call.op # "encode?" => ~after.question_returned.ok
                   /\ Working(after) = Working(before)
                   /\ after.locks = size
            /\ (before.locks < size
                    /\ call.op \in {"lock_byte?", "set_current_byte?", "encode?"}) =>
                   /\ after.forged_returned.ok
                   /\ after.question_returned.ok
            /\ call.op = "plain_text_solution?" =>
                   /\ after.forged_returned.ok <=> before.locks = size
                   /\ after.question_returned.ok <=> before.locks = size
                   /\ Working(after) = Working(before)

\* lock_byte is refused by a 16-byte state all of whose bytes are locked, the
\* solution holding values that were set
C40_Witness ==
    /\ call.op = "lock_byte?"
    /\ call.args[1].locks = Sixteen
    /\ ~call.result.forged_returned.ok
    /\ call.result.forged_returned.error = ErrLockedAll
    /\ call.result.question_returned.error = ErrAlreadyLocked
    /\ call.result.forged.forged_block_solution[0] # 0
    /\ checked_plain_text_solution(call.result.forged).ok

\* the solvers inside the lookup or the insert
InCache == {t \in ParallelBlocks : solver[t].at \in {"lookup", "insert"}}

\* the blocks whose solve_block has returned
SolveReturned ==
    {t \in ParallelBlocks : solver[t].at \in {"lock_row", "write_row", "done"}}

\* C34: no thread holds the lock of the cache while a request of its block
\* is sent or awaited: the lock is held for one lookup or one insert, so a
\* block never stops the byte searches of its siblings, and the inserts of
\* parallel blocks come one after the other, so that when all solves have
\* finished the cache holds the entry of every solved block.
C34_CacheLockHeldBriefly ==
    /\ [](/\ InCache = IF cache_guard = NoThread THEN {} ELSE {cache_guard[1]}
          /\ Cardinality(InCache) <= 1
          /\ \A t \in ParallelBlocks :
                 /\ (\E w \in Candidates :
                         candidate[t][w].at \in {"asking", "try_lock", "write"}) =>
                        cache_guard # SolverOf(t)
                 /\ cache_guard = SolverOf(t) =>
                        \A w \in Candidates : candidate[t][w] = Idle
          /\ SolveReturned \subseteq cache_entries
          /\ (\A t \in ParallelBlocks : solver[t].at = "done") =>
                 /\ cache_entries = ParallelBlocks
                 /\ cache_guard = NoThread)
    /\ [](\A t \in ParallelBlocks, w \in Candidates :
              (cache_guard # NoThread /\ solver[t].at = "round") =>
                  /\ candidate[t][w].at = "waiting" => ENABLED Ask(t, w)
                  /\ candidate[t][w].at = "asking" => ENABLED Answer(t, w))
    /\ [][cache_entries \subseteq cache_entries']_vars

\* the first block is inserted into the cache while requests of the second
\* block's search are awaited
C34_Witness ==
    /\ cache_guard = SolverOf(1)
    /\ solver[1].at = "insert"
    /\ solver[2].at = "round"
    /\ \A w \in Candidates : candidate[2][w].at = "asking"

\* C37: for each block no BlockWip event is sent after the block's
\* BlockSolved event, however the candidate closures interleave, so once all
\* events are handled the forged, intermediate and plain text rows of a
\* solved block show its solution; only an update of BlockWip is dropped
\* when a row's mutex is held, an update of BlockSolved never is.
C37_NoWipAfterSolved ==
    /\ [][\A t \in ParallelBlocks, w \in Candidates :
             (candidate[t][w].at = "asking" /\ candidate'[t][w].at # "asking") =>
                 ~solved_sent[t] /\ ~solved_sent'[t] /\ wips'[t]]_vars
    /\ [](\A t \in ParallelBlocks :
              /\ solved_sent[t] => \A w \in Candidates : candidate[t][w] = Idle
              /\ solved_sent[t] <=> t \in SolveReturned
              /\ solver[t].at = "done" =>
                     \A k \in DOMAIN RowOrder : rows[k][t] = "solution"
              /\ \A k \in DOMAIN RowOrder :
                     rows[k][t] = "solution" => solved_sent[t])
    /\ [][\A t \in ParallelBlocks, k \in DOMAIN RowOrder :
             rows[k][t] = "solution" => rows'[k][t] = "solution"]_vars
    /\ [][\A t \in ParallelBlocks :
             (solver[t].at = "write_row" /\ solver'[t].at # "write_row") =>
                 rows'[solver[t].row][t] = "solution"]_vars

\* both blocks were searched and are shown solved, after an update of a
\* BlockWip event was dropped
C37_Witness ==
    /\ \A t \in ParallelBlocks : solver[t].at = "done" /\ wips[t]
    /\ dropped
    /\ \A t \in ParallelBlocks, k \in DOMAIN RowOrder : rows[k][t] = "solution"
====
